---- MODULE Spec2Model ----
(***************************************************************************)
(* Model of the Scribe bulk exporter scripts.                              *)
(*                                                                         *)
(*   SpecLimiter        the RateLimiter class of                           *)
(*                      scribe-exporter-headless-only.js, driven by any    *)
(*                      sequence of calls of its methods                   *)
(*   SpecBackoff        the same class, its delay under long runs of       *)
(*                      handleError                                        *)
(*   SpecHeadless       downloadAllScribes of                              *)
(*                      scribe-exporter-headless-only.js: the export loop  *)
(*                      with its retry loop, on top of the same limiter    *)
(*   SpecCookie         the export loop of the cookie-login exporter       *)
(*                      (unnamed/part_013), with its own limiter           *)
(*   SpecComprehensive  downloadAllScribes of the comprehensive exporter   *)
(*                      (unnamed/part_008): export loop, ProgressTracker,  *)
(*                      saveProgress, and a restart of the script          *)
(*   SpecDiscovery      exploreAllDocuments of the comprehensive exporter  *)
(*   SpecRun            a whole run of the comprehensive exporter against  *)
(*                      a fixed workspace: login, discovery, export loop,  *)
(*                      end of the process                                 *)
(*   SpecExport         exportDocument of scribe-exporter-headless-only.js *)
(*                      one driver call at a time, under its export loop;  *)
(*                      SpecExportFair adds that every call returns        *)
(*   SpecCollect        collectAllDocuments of the same script             *)
(*   SpecRecursive      the folder exploration of scribe-recursive.js      *)
(*                                                                         *)
(* Time is Date.now() in milliseconds.  Date.now() is taken to be          *)
(* non-decreasing and sleep(ms) to resume no earlier than floor(ms)        *)
(* milliseconds after it was called.                                       *)
(***************************************************************************)
EXTENDS Integers, Sequences, FiniteSets, TLC

VARIABLES
  \* ---- RateLimiter (scribe-exporter-headless-only.js)
  config,             \* this.config
  requestTimes,       \* this.requestTimes
  currentDelay,       \* this.currentDelay, a dyadic rational [n, e] = n / 2^e
  consecutiveErrors,  \* this.consecutiveErrors
  lastRequestTime,    \* this.lastRequestTime
  clock,              \* Date.now()
  \* ---- history of the limiter (not program state)
  recorded,           \* every timestamp pushed since construction or the last reset()
  capOldest,          \* oldest timestamp of a full window met by the last waitForNextSlot(), or -1
  cleaned,            \* [now, kept]: the window right after the cleanup of the last waitForNextSlot()
  sleeps,             \* number of sleeps of the last waitForNextSlot()
  fresh,              \* no handleSuccess()/reset() since construction
  errorCalls,         \* handleError() calls since construction, counted while fresh
  ops,                \* calls made so far that take time
  lastCall,           \* the last method called, and the delay state and window size it met
  \* ---- downloadAllScribes (scribe-exporter-headless-only.js)
  documents,          \* const documents = await collectAllDocuments(page)
  i,                  \* the loop index, from 0
  pc,                 \* where downloadAllScribes is
  retries,            \* let retries
  exported,           \* let exported
  successCount,       \* let successCount
  errorCount,         \* let errorCount
  error,              \* the message of the error caught at line 178, "none" outside the catch
  \* ---- history of the run (not program state)
  attempts,           \* attempts[d]: exportDocument invocations for document d (from 1)
  signals,            \* signals[d]: invocations for d that ended in a rate-limit signal
  signalCount,        \* rate-limit signals of the run
  slotsSince,         \* waitForNextSlot() calls completed since the last exportDocument invocation
  sessionPending,     \* an attempt raised session-expired and nothing re-authenticated since
  retriesAtThrow,     \* retries when the last error was thrown
  \* ---- downloadAllScribes (unnamed/part_008), which shares config, lastRequestTime,
  \*      clock, i, pc, attempts and slotsSince with the above
  allDocuments,       \* const allDocuments = await exploreAllDocuments(page)
  progress,           \* const progress = new ProgressTracker(allDocuments.length)
  retry,              \* let retry
  success,            \* let success
  lastError,          \* let lastError: a message, or "null"
  progressFile,       \* ./progress.json: <<>> while there is none, else <<its content>>
  finalReport,        \* export-report.json: <<>> while there is none, else <<its content>>
  \* ---- history of that run (not program state)
  outcome,            \* outcome[d]: "pending", "exported" or "failed"
  thrown,             \* thrown[d]: the messages of the errors the attempts for d threw
  faults,             \* failed attempts of this run
  restarts,           \* how often the script was killed and started again
  startFile,          \* ./progress.json as it was when this run started
  \* ---- exploreAllDocuments (unnamed/part_008), which shares allDocuments, i and pc
  folders,            \* const folders: the names of the folders of the workspace view
  subfolders,         \* const subfolders: the names of the subfolders of the open folder
  subfolderIndex,     \* how many subfolders of the open folder the for-of loop has taken
  uniqueDocuments,    \* const uniqueDocuments
  \* ---- history of the exploration (not program state)
  views,              \* what each getDocumentsFromCurrentView returned, in traversal order
  \* ---- the whole script (unnamed/part_008): login, exploration, export, exit
  workspace,          \* what the site shows: <<>> for anything, else <<[root, folders]>>
  exitCode,           \* the exit code of the node process, -1 while it runs
  ending,             \* how the run ended (history): "running", "authFailed", ...
  \* ---- exportDocument (scribe-exporter-headless-only.js)
  step,               \* where exportDocument is, "idle" while it is not running
  selector,           \* the place in shareSelectors, menuSelectors or pdfExportSelectors
  pageUrl,            \* page.url(): "blank", "document" or "signin"
  downloadPromise,    \* const downloadPromise: "none", "pending", "resolved" or "rejected"
  downloadsDir,       \* downloadsDir[name]: <<>> while there is no such file, else <<href>>
  \* ---- history of the exports (not program state)
  trace,              \* what the running or last exportDocument call has done, in order
  pendingWaits,       \* documents with a wait armed by a finished call that is still pending
  persistFailed,      \* documents for which a download.saveAs has thrown
  overwritten,        \* hrefs whose saved file another document's export has replaced
  \* ---- collectAllDocuments (scribe-exporter-headless-only.js), which shares
  \*      allDocuments, uniqueDocuments and pc
  strategies,         \* const strategies, each by what it does on the page shown
  strategyIndex,      \* how many strategies the for-of loop has taken
  invoked,            \* the strategies called, in order (history)
  \* ---- exploreFolderRecursive (scribe-recursive.js), which shares allDocuments, i and pc
  frames,             \* the calls of exploreFolderRecursive that have not returned, outermost first
  location            \* the folder the page shows, as the path of names from 'All Documents'

rlVars == <<config, requestTimes, currentDelay, consecutiveErrors, lastRequestTime, clock>>
histVars == <<recorded, capOldest, cleaned, sleeps, fresh, errorCalls, ops, lastCall>>

hlVars == <<documents, i, pc, retries, exported, successCount, errorCount, error>>
hlHist == <<attempts, signals, signalCount, slotsSince, sessionPending, retriesAtThrow>>

cpVars == <<allDocuments, progress, retry, success, lastError, progressFile, finalReport>>
cpHist == <<outcome, thrown, faults, restarts, startFile>>

runVars == <<workspace, exitCode, ending>>

exVars == <<step, selector, pageUrl, downloadPromise, downloadsDir>>
exHist == <<trace, pendingWaits, persistFailed, overwritten>>

coVars == <<strategies, strategyIndex, invoked>>
rcVars == <<frames, location>>

dsVars == <<folders, subfolders, subfolderIndex, uniqueDocuments, views, runVars, exVars, exHist,
           coVars, rcVars>>

vars == <<rlVars, histVars, hlVars, hlHist, cpVars, cpHist, dsVars>>

----------------------------------------------------------------------------
(* Bounds of the model *)

Epoch == 100000          \* Date.now() when the script starts
MaxOvershoot == 1        \* a sleep resumes up to this many ms late
MaxOps == 5              \* calls of one limiter that take time (waitForNextSlot, applyCooldown, pauses)
MaxBackoff == 1          \* SpecLimiter: cap on consecutive handleError() calls
MaxErrors == 8           \* SpecBackoff: cap on consecutive handleError() calls
MaxRPM == 2              \* largest requestsPerMinute tried
MaxDocs == 2             \* SpecHeadless: documents found
MaxSignals == 2          \* SpecHeadless: rate-limit signals the service sends in one run
ExtraDocs == 1           \* SpecComprehensive: documents found beyond the first checkpoint
MaxFaults == 4           \* SpecComprehensive: failed export attempts in one run
MaxRestarts == 1         \* SpecComprehensive: times the script is killed and started again
MaxLongFaults == 1       \* SpecComprehensive: failed export attempts in a list beyond a checkpoint
RestartGap == 1000000    \* SpecComprehensive: ms between two starts of the script
MaxFound == 4            \* SpecDiscovery: links found in all views together
MaxFolders == 2          \* SpecDiscovery: folders of the workspace view
MaxDepth == 2            \* SpecRecursive: the depth from which the pages show no subfolder

----------------------------------------------------------------------------
(* JavaScript numbers that are not integers: dyadic rationals n / 2^e *)

RECURSIVE Pow(_, _)
Pow(b, k) == IF k = 0 THEN 1 ELSE b * Pow(b, k - 1)

RECURSIVE Norm(_, _)
Norm(n, e) == IF e > 0 /\ n % 2 = 0 THEN Norm(n \div 2, e - 1) ELSE [n |-> n, e |-> e]

DyInt(k) == [n |-> k, e |-> 0]
DyMul(a, b) == Norm(a.n * b.n, a.e + b.e)
DyLt(a, b) == a.n * Pow(2, b.e) < b.n * Pow(2, a.e)
DyMin(a, b) == IF DyLt(b, a) THEN b ELSE a
DyAdd(a, b) == Norm(a.n * Pow(2, b.e) + b.n * Pow(2, a.e), a.e + b.e)
DySub(a, b) == Norm(a.n * Pow(2, b.e) - b.n * Pow(2, a.e), a.e + b.e)
DySubInt(a, k) == Norm(a.n - k * Pow(2, a.e), a.e)
DyFloor(a) == a.n \div Pow(2, a.e)

Max(a, b) == IF a >= b THEN a ELSE b

----------------------------------------------------------------------------
(* RATE_LIMIT_CONFIG and new RateLimiter(RATE_LIMIT_CONFIG) *)

WindowMs == 60000

RATE_LIMIT_CONFIG ==
  [requestsPerMinute |-> 10,
   minDelayMs |-> 3000,
   maxDelayMs |-> 30000,
   backoffMultiplier |-> [n |-> 3, e |-> 1],
   maxRetries |-> 3,
   cooldownPeriod |-> 60000]

\* constructor(config)
Constructed(cfg) ==
  /\ config = cfg
  /\ requestTimes = <<>>
  /\ currentDelay = DyInt(cfg.minDelayMs)
  /\ consecutiveErrors = 0
  /\ lastRequestTime = 0

Overshoots == {0, MaxOvershoot}

----------------------------------------------------------------------------
(* RateLimiter.waitForNextSlot *)

\* a cleanup that keeps a timestamp exactly 60000 ms old
CleanUpInclusive(times, now) == SelectSeq(times, LAMBDA time : now - time <= WindowMs)

\* this.requestTimes.filter(time => now - time < 60000)
CleanUp(times, now) == SelectSeq(times, LAMBDA time : now - time < WindowMs)

\* a limiter whose cap test lets one request too many through
CapReachedOffByOne(times, cfg) == Len(times) > cfg.requestsPerMinute

\* this.requestTimes.length >= this.config.requestsPerMinute
CapReached(times, cfg) == Len(times) >= cfg.requestsPerMinute

\* Math.max(0, 60000 - (now - oldestRequest)), 0 when the cap is not reached
CapWaitTime(times, now, cfg) ==
  IF CapReached(times, cfg) THEN Max(0, WindowMs - (now - times[1])) ELSE 0

\* timeSinceLastRequest < this.currentDelay ? this.currentDelay - timeSinceLastRequest : 0
DelayWaitTime(now, last, delay) ==
  IF DyLt(DyInt(now - last), delay) THEN DySubInt(delay, now - last) ELSE DyInt(0)

\* Date.now() once sleep(ms), started at time t, has resumed `over` ms late;
\* the code starts no sleep of 0 ms
AfterSleep(t, ms, over) == IF ms > 0 THEN t + ms + over ELSE t

\* Date.now() when the call that starts now records its timestamp
RecordTime(o1, o2) ==
  LET now == clock
      kept == CleanUp(requestTimes, now)
      t1 == AfterSleep(now, CapWaitTime(kept, now, config), o1)
  IN  AfterSleep(t1, DyFloor(DelayWaitTime(now, lastRequestTime, currentDelay)), o2)

\* a limiter that returns without recording when it meets a full window
WaitForNextSlotDropping(o1, o2) ==
  /\ requestTimes' = IF CapReached(CleanUp(requestTimes, clock), config)
                     THEN CleanUp(requestTimes, clock)
                     ELSE Append(CleanUp(requestTimes, clock), RecordTime(o1, o2))
  /\ lastRequestTime' = RecordTime(o1, o2)
  /\ clock' = RecordTime(o1, o2)
  /\ UNCHANGED <<config, currentDelay, consecutiveErrors>>

\* a limiter that puts its timestamp in front of the window
WaitForNextSlotUnshift(o1, o2) ==
  /\ requestTimes' = <<RecordTime(o1, o2)>> \o CleanUp(requestTimes, clock)
  /\ lastRequestTime' = RecordTime(o1, o2)
  /\ clock' = RecordTime(o1, o2)
  /\ UNCHANGED <<config, currentDelay, consecutiveErrors>>

\* The whole call; o1 and o2 are the overshoots of its two sleeps.
WaitForNextSlot(o1, o2) ==
  /\ requestTimes' = Append(CleanUp(requestTimes, clock), RecordTime(o1, o2))
  /\ lastRequestTime' = RecordTime(o1, o2)
  /\ clock' = RecordTime(o1, o2)
  /\ UNCHANGED <<config, currentDelay, consecutiveErrors>>

----------------------------------------------------------------------------
(* RateLimiter.handleSuccess, handleError, applyCooldown, reset *)

\* a handleSuccess that resets the error count only
SuccessDelayKept(cfg) == currentDelay

\* this.currentDelay = this.config.minDelayMs
SuccessDelay(cfg) == DyInt(cfg.minDelayMs)

\* a handleSuccess that resets the delay only
HandleSuccessKeepingCount ==
  /\ currentDelay' = SuccessDelay(config)
  /\ consecutiveErrors' = consecutiveErrors
  /\ UNCHANGED <<config, requestTimes, lastRequestTime, clock>>

HandleSuccess ==
  /\ currentDelay' = SuccessDelay(config)
  /\ consecutiveErrors' = 0
  /\ UNCHANGED <<config, requestTimes, lastRequestTime, clock>>

\* a backoff without the Math.min of line 70
BackoffDelayUncapped(delay, cfg) == DyMul(delay, cfg.backoffMultiplier)

\* Math.min(this.currentDelay * this.config.backoffMultiplier, this.config.maxDelayMs)
BackoffDelay(delay, cfg) == DyMin(DyMul(delay, cfg.backoffMultiplier), DyInt(cfg.maxDelayMs))

HandleError ==
  /\ consecutiveErrors' = consecutiveErrors + 1
  /\ currentDelay' = BackoffDelay(currentDelay, config)
  /\ UNCHANGED <<config, requestTimes, lastRequestTime, clock>>

\* the delay of setTimeout(resolve, this.config.cooldownPeriod): a delay that is
\* not a number (the config has no cooldownPeriod) is taken for 1 ms
CooldownMs(cfg) == IF "cooldownPeriod" \in DOMAIN cfg THEN cfg.cooldownPeriod ELSE 1

\* an applyCooldown whose reset() keeps the window
ApplyCooldownKeepingWindow(over) ==
  /\ clock' = AfterSleep(clock, CooldownMs(config), over)
  /\ currentDelay' = DyInt(config.minDelayMs)
  /\ consecutiveErrors' = 0
  /\ UNCHANGED <<config, requestTimes, lastRequestTime>>

\* applyCooldown(): sleep(cooldownPeriod), resumed `over` ms late, then reset()
ApplyCooldown(over) ==
  /\ clock' = AfterSleep(clock, CooldownMs(config), over)
  /\ requestTimes' = <<>>
  /\ currentDelay' = DyInt(config.minDelayMs)
  /\ consecutiveErrors' = 0
  /\ UNCHANGED <<config, lastRequestTime>>

----------------------------------------------------------------------------
(* What the history variables keep of each call *)

\* the call of method name that starts now
Calling(name) ==
  [name |-> name, delay |-> currentDelay, errors |-> consecutiveErrors,
   window |-> Len(requestTimes)]

HistoryInit ==
  /\ recorded = <<>>
  /\ capOldest = -1
  /\ cleaned = [now |-> 0, kept |-> <<>>]
  /\ sleeps = 0
  /\ fresh = TRUE
  /\ errorCalls = 0
  /\ ops = 0
  /\ lastCall = [name |-> "constructor", delay |-> DyInt(0), errors |-> 0, window |-> 0]

SlotHistory ==
  LET kept == CleanUp(requestTimes, clock)
  IN  /\ recorded' = Append(recorded, clock')
      /\ capOldest' = IF CapReached(kept, config) THEN kept[1] ELSE -1
      /\ cleaned' = [now |-> clock, kept |-> kept]
      /\ sleeps' = (IF CapWaitTime(kept, clock, config) > 0 THEN 1 ELSE 0)
                   + (IF DyFloor(DelayWaitTime(clock, lastRequestTime, currentDelay)) > 0
                      THEN 1 ELSE 0)
      /\ ops' = ops + 1
      /\ lastCall' = Calling("waitForNextSlot")
      /\ UNCHANGED <<fresh, errorCalls>>

SuccessHistory ==
  /\ fresh' = FALSE
  /\ errorCalls' = 0
  /\ lastCall' = Calling("handleSuccess")
  /\ UNCHANGED <<recorded, capOldest, cleaned, sleeps, ops>>

ErrorHistory ==
  /\ errorCalls' = IF fresh THEN errorCalls + 1 ELSE 0
  /\ lastCall' = Calling("handleError")
  /\ UNCHANGED <<recorded, capOldest, cleaned, sleeps, fresh, ops>>

CooldownHistory ==
  /\ recorded' = <<>>
  /\ fresh' = FALSE
  /\ errorCalls' = 0
  /\ ops' = ops + 1
  /\ lastCall' = Calling("applyCooldown")
  /\ UNCHANGED <<capOldest, cleaned, sleeps>>

----------------------------------------------------------------------------
(* SpecLimiter: one RateLimiter, its calls in any order, with time.          *)
(* The configurations tried are RATE_LIMIT_CONFIG with a requestsPerMinute   *)
(* small enough for the cap to be met within MaxOps calls                    *)
(* (image-pdf-converter.js, whose limiter has the same cap, reads it from    *)
(* RATE_LIMIT_REQUESTS_PER_MINUTE).                                          *)

LimiterConfigs == {[RATE_LIMIT_CONFIG EXCEPT !.requestsPerMinute = n] : n \in 1..MaxRPM}

ElapseSteps == {20000}

\* no downloadAllScribes is running
NoRun ==
  /\ documents = <<>>
  /\ i = 0
  /\ pc = "none"
  /\ retries = 0
  /\ exported = FALSE
  /\ successCount = 0
  /\ errorCount = 0
  /\ error = "none"
  /\ attempts = <<>>
  /\ signals = <<>>
  /\ signalCount = 0
  /\ slotsSince = 0
  /\ sessionPending = FALSE
  /\ retriesAtThrow = 0

\* no comprehensive exporter is running
NoComprehensive ==
  /\ allDocuments = <<>>
  /\ progress = "none"
  /\ retry = 0
  /\ success = FALSE
  /\ lastError = "null"
  /\ progressFile = <<>>
  /\ finalReport = <<>>
  /\ outcome = <<>>
  /\ thrown = <<>>
  /\ faults = 0
  /\ restarts = 0
  /\ startFile = <<>>

\* no exportDocument is followed step by step
NoExport ==
  /\ step = "idle"
  /\ selector = 0
  /\ pageUrl = "blank"
  /\ downloadPromise = "none"
  /\ downloadsDir = <<>>
  /\ trace = <<>>
  /\ pendingWaits = {}
  /\ persistFailed = {}
  /\ overwritten = {}

\* no collectAllDocuments and no exploreFolderRecursive is running
NoCollection ==
  /\ strategies = <<>>
  /\ strategyIndex = 0
  /\ invoked = <<>>
  /\ frames = <<>>
  /\ location = <<>>

\* no exploreAllDocuments is running
NoDiscovery ==
  /\ folders = <<>>
  /\ subfolders = <<>>
  /\ subfolderIndex = 0
  /\ uniqueDocuments = <<>>
  /\ views = <<>>
  /\ workspace = <<>>
  /\ exitCode = -1
  /\ ending = "running"

InitLimiter ==
  /\ NoExport
  /\ NoCollection
  /\ \E cfg \in LimiterConfigs : Constructed(cfg)
  /\ clock = Epoch
  /\ HistoryInit
  /\ NoRun
  /\ NoComprehensive
  /\ NoDiscovery

CallWaitForNextSlot ==
  /\ ops < MaxOps
  /\ \E o1 \in Overshoots, o2 \in Overshoots : WaitForNextSlot(o1, o2)
  /\ SlotHistory
  /\ UNCHANGED <<hlVars, hlHist, cpVars, cpHist, dsVars>>

CallHandleSuccess ==
  /\ HandleSuccess
  /\ SuccessHistory
  /\ UNCHANGED <<hlVars, hlHist, cpVars, cpHist, dsVars>>

CallHandleError ==
  /\ consecutiveErrors < MaxBackoff
  /\ HandleError
  /\ ErrorHistory
  /\ UNCHANGED <<hlVars, hlHist, cpVars, cpHist, dsVars>>

CallApplyCooldown ==
  /\ ops < MaxOps
  /\ \E over \in Overshoots : ApplyCooldown(over)
  /\ CooldownHistory
  /\ UNCHANGED <<hlVars, hlHist, cpVars, cpHist, dsVars>>

\* the caller does something else for a while
Elapse ==
  /\ ops < MaxOps
  /\ \E d \in ElapseSteps : clock' = clock + d
  /\ ops' = ops + 1
  /\ UNCHANGED <<config, requestTimes, currentDelay, consecutiveErrors, lastRequestTime,
                 recorded, capOldest, cleaned, sleeps, fresh, errorCalls, lastCall>>
  /\ UNCHANGED <<hlVars, hlHist, cpVars, cpHist, dsVars>>

NextLimiter ==
  \/ CallWaitForNextSlot
  \/ CallHandleSuccess
  \/ CallHandleError
  \/ CallApplyCooldown
  \/ Elapse

SpecLimiter == InitLimiter /\ [][NextLimiter]_vars

\* C1 (rate cap): of the timestamps recorded since construction or the last reset,
\* at most requestsPerMinute lie in the 60000 ms that end at any recorded timestamp
\* (hence in any trailing 60000 ms window); and a call that met a full window
\* recorded its timestamp no earlier than 60000 ms after the oldest timestamp of it.
RateCap ==
  /\ \A j \in 1..Len(recorded) :
       Cardinality({k \in 1..j : recorded[j] - recorded[k] < WindowMs})
         <= config.requestsPerMinute
  /\ capOldest # -1 => lastRequestTime - capOldest >= WindowMs

\* a call met a full window, slept, and recorded exactly when its oldest timestamp
\* was 60000 ms old
RateCapWitness ==
  /\ capOldest # -1
  /\ sleeps >= 1
  /\ Len(recorded) > config.requestsPerMinute
  /\ lastRequestTime - capOldest = WindowMs

\* C14 (the limiter never rejects): waitForNextSlot() can be called in every state;
\* once it has returned, and until the next call, it has slept at most twice and
\* for at most 60000 ms plus the delay and the timers' lateness, the window is
\* what the cleanup kept plus exactly one timestamp, the time of return, and
\* lastRequestTime is that time.
NeverRejects ==
  /\ ops < MaxOps => ENABLED CallWaitForNextSlot
  /\ lastCall.name = "waitForNextSlot" =>
       /\ sleeps <= 2
       /\ requestTimes = Append(cleaned.kept, lastRequestTime)
       /\ lastRequestTime >= cleaned.now
       /\ lastRequestTime - cleaned.now
            <= WindowMs + DyFloor(lastCall.delay) + 2 * MaxOvershoot

\* a call met a full window and a delay not yet over: it slept twice and recorded
NeverRejectsWitness ==
  /\ lastCall.name = "waitForNextSlot"
  /\ lastCall.window = config.requestsPerMinute
  /\ sleeps = 2
  /\ Len(cleaned.kept) = config.requestsPerMinute
  /\ requestTimes = Append(cleaned.kept, lastRequestTime)

\* C19 (window cleanup): right after the cleanup of a waitForNextSlot() call made
\* at time now, every timestamp kept is less than 60000 ms older than now (and
\* none is later than now), and what was dropped is a prefix of the window.
WindowCleanup ==
  /\ \A k \in 1..Len(cleaned.kept) :
       /\ cleaned.now - cleaned.kept[k] < WindowMs
       /\ cleaned.kept[k] <= cleaned.now
  /\ lastCall.name = "waitForNextSlot" =>
       /\ Len(cleaned.kept) <= lastCall.window
       /\ requestTimes = Append(cleaned.kept, lastRequestTime)

\* a cleanup dropped a timestamp 60000 ms old or older and kept a younger one
WindowCleanupWitness ==
  /\ lastCall.name = "waitForNextSlot"
  /\ Len(cleaned.kept) > 0
  /\ Len(cleaned.kept) < lastCall.window

\* C12 (cooldown reset): once applyCooldown() has completed, and until the next
\* call, the window is empty, currentDelay = minDelayMs and consecutiveErrors = 0,
\* whatever the window, the delay and the error count were when it was called.
CooldownReset ==
  lastCall.name = "applyCooldown" =>
    /\ requestTimes = <<>>
    /\ currentDelay = DyInt(config.minDelayMs)
    /\ consecutiveErrors = 0

\* applyCooldown() was called with a non-empty window, a raised delay and an error
\* counted
CooldownResetWitness ==
  /\ lastCall.name = "applyCooldown"
  /\ lastCall.window > 0
  /\ lastCall.errors > 0
  /\ DyLt(DyInt(config.minDelayMs), lastCall.delay)
  /\ requestTimes = <<>>

\* C39 (ordered window): the timestamps of the window are in non-decreasing
\* order, so that its first element, which waitForNextSlot() takes for the
\* oldest, is the oldest.
OrderedWindow ==
  /\ \A k \in 1..(Len(requestTimes) - 1) : requestTimes[k] <= requestTimes[k + 1]
  /\ \A k \in 1..Len(requestTimes) : requestTimes[1] <= requestTimes[k]

\* the last call met a full window of two timestamps and took the first, which is
\* the older, for the oldest
OrderedWindowWitness ==
  /\ lastCall.name = "waitForNextSlot"
  /\ capOldest # -1
  /\ Len(cleaned.kept) = 2
  /\ cleaned.kept[1] < cleaned.kept[2]
  /\ capOldest = cleaned.kept[1]

----------------------------------------------------------------------------
(* SpecBackoff: the delay state of one RateLimiter under handleSuccess,      *)
(* handleError and applyCooldown.  minDelayMs is RATE_LIMIT_CONFIG's or one  *)
(* set through MIN_DELAY_MS (image-pdf-converter.js, unnamed/part_004).      *)

MinDelayChoices == {1000, RATE_LIMIT_CONFIG.minDelayMs, 40000}

BackoffConfigs == {[RATE_LIMIT_CONFIG EXCEPT !.minDelayMs = m] : m \in MinDelayChoices}

InitBackoff ==
  /\ NoExport
  /\ NoCollection
  /\ \E cfg \in BackoffConfigs : Constructed(cfg)
  /\ clock = Epoch
  /\ HistoryInit
  /\ NoRun
  /\ NoComprehensive
  /\ NoDiscovery

ManyHandleError ==
  /\ consecutiveErrors < MaxErrors
  /\ HandleError
  /\ ErrorHistory
  /\ UNCHANGED <<hlVars, hlHist, cpVars, cpHist, dsVars>>

NextBackoff ==
  \/ ManyHandleError
  \/ CallHandleSuccess
  \/ CallApplyCooldown

SpecBackoff == InitBackoff /\ [][NextBackoff]_vars

\* min(3000 * 1.5^k, 30000)
GrowthClosedForm(k) ==
  IF 3000 * Pow(3, k) <= 30000 * Pow(2, k) THEN Norm(3000 * Pow(3, k), k) ELSE DyInt(30000)

\* C10 (backoff growth): with minDelayMs = 3000, backoffMultiplier = 1.5 and
\* maxDelayMs = 30000, after k handleError() calls on a fresh limiter (no
\* handleSuccess or reset yet) currentDelay = min(3000 * 1.5^k, 30000) and
\* consecutiveErrors = k.
BackoffGrowth ==
  (/\ fresh
   /\ config.minDelayMs = 3000
   /\ config.backoffMultiplier = [n |-> 3, e |-> 1]
   /\ config.maxDelayMs = 30000)
  => /\ currentDelay = GrowthClosedForm(errorCalls)
     /\ consecutiveErrors = errorCalls

\* seven errors in a row on a fresh limiter: 3000 * 1.5^7 is past the cap
BackoffGrowthWitness ==
  /\ fresh
  /\ config.minDelayMs = 3000
  /\ errorCalls = 7
  /\ currentDelay = DyInt(30000)

\* C11 (backoff reset): once handleSuccess() has been called, and until the next
\* call, currentDelay = minDelayMs and consecutiveErrors = 0, however many
\* handleError() calls came before and whatever minDelayMs is.
BackoffReset ==
  lastCall.name = "handleSuccess" =>
    /\ currentDelay = DyInt(config.minDelayMs)
    /\ consecutiveErrors = 0

\* handleSuccess() was called after seven or more errors in a row, with the delay at
\* its cap
BackoffResetWitness ==
  /\ lastCall.name = "handleSuccess"
  /\ lastCall.errors >= 7
  /\ lastCall.delay = DyInt(config.maxDelayMs)
  /\ config.minDelayMs = RATE_LIMIT_CONFIG.minDelayMs
  /\ currentDelay = DyInt(RATE_LIMIT_CONFIG.minDelayMs)

\* multiplier^k
DyPow(multiplier, k) == Norm(Pow(multiplier.n, k), multiplier.e * k)

\* min(minDelayMs * backoffMultiplier^k, maxDelayMs)
DelayClosedForm(cfg, k) ==
  DyMin(DyMul(DyInt(cfg.minDelayMs), DyPow(cfg.backoffMultiplier, k)), DyInt(cfg.maxDelayMs))

\* C36 (delay tracks error count): when minDelayMs <= maxDelayMs and
\* backoffMultiplier >= 1, currentDelay =
\* min(minDelayMs * backoffMultiplier^consecutiveErrors, maxDelayMs) after any
\* sequence of handleSuccess(), handleError() and applyCooldown() calls.
DelayTracksErrors ==
  (/\ config.minDelayMs <= config.maxDelayMs
   /\ ~DyLt(config.backoffMultiplier, DyInt(1)))
  => currentDelay = DelayClosedForm(config, consecutiveErrors)

\* three errors in a row after a handleSuccess() or an applyCooldown(): the delay
\* is 3000 * 1.5^3 = 10125
DelayTracksErrorsWitness ==
  /\ ~fresh
  /\ config.minDelayMs = RATE_LIMIT_CONFIG.minDelayMs
  /\ consecutiveErrors = 3
  /\ currentDelay = DyInt(10125)

\* C37 (delay bounds): for every minDelayMs that can be set through MIN_DELAY_MS,
\* minDelayMs <= currentDelay <= maxDelayMs, and handleError() leaves the delay
\* no lower than it found it.
DelayBounds ==
  /\ ~DyLt(currentDelay, DyInt(config.minDelayMs))
  /\ ~DyLt(DyInt(config.maxDelayMs), currentDelay)
  /\ lastCall.name = "handleError" => ~DyLt(currentDelay, lastCall.delay)

----------------------------------------------------------------------------
(* SpecHeadless: downloadAllScribes of scribe-exporter-headless-only.js,     *)
(* from the document list on.  One action per stretch of code between two    *)
(* awaits of the export loop.                                                *)

\* the messages exportDocument throws (lines 389-395)
SessionExpiredMessage == "Session expired - need to re-login"
ExportErrors ==
  {SessionExpiredMessage,
   "Export timeout - document may be too large",
   "Export failed: Could not find Share button",
   "Export failed: page.goto: net::ERR_ABORTED at https://scribehow.com/shared/Guide__429",
   "Export failed: too many requests"}

\* error.message.includes('429') || error.message.includes('rate limit') ||
\* error.message.includes('too many requests')
IsRateLimitSignal(message) ==
  message \in {"Export failed: page.goto: net::ERR_ABORTED at https://scribehow.com/shared/Guide__429",
               "Export failed: too many requests"}

\* what collectAllDocuments returned: n documents with distinct hrefs
DocumentList(n) ==
  [d \in 1..n |-> [href |-> d, title |-> IF d % 2 = 0 THEN "Untitled" ELSE "Guide"]]

\* how long one exportDocument call takes: at least its fixed waits
ExportDurations == {4000}

\* the sleeps of a run resume on time
RunOvershoots == {0}

InitHeadless ==
  /\ NoExport
  /\ NoCollection
  /\ Constructed(RATE_LIMIT_CONFIG)
  /\ clock = Epoch
  /\ HistoryInit
  /\ \E n \in 0..MaxDocs : documents = DocumentList(n)
  /\ i = 0
  /\ pc = IF documents = <<>> THEN "done" ELSE "top"
  /\ retries = 0
  /\ exported = FALSE
  /\ successCount = 0
  /\ errorCount = 0
  /\ error = "none"
  /\ attempts = [d \in 1..Len(documents) |-> 0]
  /\ signals = [d \in 1..Len(documents) |-> 0]
  /\ signalCount = 0
  /\ slotsSince = 0
  /\ sessionPending = FALSE
  /\ retriesAtThrow = 0
  /\ NoComprehensive
  /\ NoDiscovery

\* a retry loop that runs once too often
LoopGoesOnOffByOne(r, e) == r <= config.maxRetries /\ ~e

\* while (retries < maxRetries && !exported)
LoopGoesOn(r, e) == r < config.maxRetries /\ ~e

\* after the while loop: the progress lines, i++ and the test of the for loop
AfterDocument ==
  /\ i' = i + 1
  /\ pc' = IF i + 1 < Len(documents) THEN "top" ELSE "done"

\* the test of the while loop with retries = r and exported = e, and where it leads
WhileTest(r, e) ==
  IF LoopGoesOn(r, e) THEN pc' = "attempt" /\ i' = i ELSE AfterDocument

\* an export loop that does not await exportDocument before it goes on
NextDocumentNoAwait ==
  /\ pc \in {"top", "attempt"}
  /\ \E o1 \in RunOvershoots, o2 \in RunOvershoots : WaitForNextSlot(o1, o2)
  /\ retries' = 0
  /\ exported' = FALSE
  /\ WhileTest(0, FALSE)
  /\ slotsSince' = slotsSince + 1
  /\ UNCHANGED <<documents, successCount, errorCount, error>>
  /\ UNCHANGED <<attempts, signals, signalCount, sessionPending, retriesAtThrow>>
  /\ UNCHANGED <<histVars, cpVars, cpHist, dsVars>>

\* lines 158-167: await rateLimiter.waitForNextSlot(), then the retry loop starts
NextDocument ==
  /\ pc = "top"
  /\ \E o1 \in RunOvershoots, o2 \in RunOvershoots : WaitForNextSlot(o1, o2)
  /\ retries' = 0
  /\ exported' = FALSE
  /\ WhileTest(0, FALSE)
  /\ slotsSince' = slotsSince + 1
  /\ UNCHANGED <<documents, successCount, errorCount, error>>
  /\ UNCHANGED <<attempts, signals, signalCount, sessionPending, retriesAtThrow>>
  /\ UNCHANGED <<histVars, cpVars, cpHist, dsVars>>

\* line 173: await exportDocument(page, doc, downloadsDir) returns
ExportReturns ==
  /\ pc = "attempt"
  /\ \E d \in ExportDurations : clock' = clock + d
  /\ pc' = "returned"
  /\ attempts' = [attempts EXCEPT ![i + 1] = @ + 1]
  /\ slotsSince' = 0
  /\ UNCHANGED <<config, requestTimes, currentDelay, consecutiveErrors, lastRequestTime>>
  /\ UNCHANGED <<documents, i, retries, exported, successCount, errorCount, error>>
  /\ UNCHANGED <<signals, signalCount, sessionPending, retriesAtThrow>>
  /\ UNCHANGED <<histVars, cpVars, cpHist, dsVars>>

\* line 173: await exportDocument(page, doc, downloadsDir) throws
ExportThrows ==
  /\ pc = "attempt"
  /\ \E message \in ExportErrors :
       /\ IsRateLimitSignal(message) => signalCount < MaxSignals
       /\ error' = message
       /\ signals' = [signals EXCEPT ![i + 1] = IF IsRateLimitSignal(message) THEN @ + 1 ELSE @]
       /\ signalCount' = IF IsRateLimitSignal(message) THEN signalCount + 1 ELSE signalCount
       /\ sessionPending' = (sessionPending \/ message = SessionExpiredMessage)
  /\ \E d \in ExportDurations : clock' = clock + d
  /\ pc' = "thrown"
  /\ attempts' = [attempts EXCEPT ![i + 1] = @ + 1]
  /\ slotsSince' = 0
  /\ retriesAtThrow' = retries
  /\ UNCHANGED <<config, requestTimes, currentDelay, consecutiveErrors, lastRequestTime>>
  /\ UNCHANGED <<documents, i, retries, exported, successCount, errorCount>>
  /\ UNCHANGED <<histVars, cpVars, cpHist, dsVars>>

\* lines 174-177, then the loop ends
ExportSucceeded ==
  /\ pc = "returned"
  /\ successCount' = successCount + 1
  /\ exported' = TRUE
  /\ HandleSuccess
  /\ WhileTest(retries, exported')
  /\ UNCHANGED <<documents, retries, errorCount, error>>
  /\ UNCHANGED hlHist
  /\ UNCHANGED <<histVars, cpVars, cpHist, dsVars>>

\* lines 179-195 up to the await of the branch taken
CatchError ==
  /\ pc = "thrown"
  /\ retries' = retries + 1
  /\ HandleError
  /\ IF IsRateLimitSignal(error)
       THEN /\ pc' = "cooldown"
            /\ UNCHANGED <<i, errorCount, error>>
       ELSE IF retries' < config.maxRetries
         THEN /\ pc' = "retryWait"
              /\ UNCHANGED <<i, errorCount, error>>
         ELSE /\ errorCount' = errorCount + 1
              /\ error' = "none"
              /\ WhileTest(retries', exported)
  /\ UNCHANGED <<documents, exported, successCount>>
  /\ UNCHANGED hlHist
  /\ UNCHANGED <<histVars, cpVars, cpHist, dsVars>>

\* a cooldown after which the attempt stays charged
CooldownOverCharged ==
  /\ pc = "cooldown"
  /\ \E over \in RunOvershoots : ApplyCooldown(over)
  /\ retries' = retries
  /\ error' = "none"
  /\ WhileTest(retries', exported)
  /\ UNCHANGED <<documents, exported, successCount, errorCount>>
  /\ UNCHANGED hlHist
  /\ UNCHANGED <<histVars, cpVars, cpHist, dsVars>>

\* lines 186-187: await rateLimiter.applyCooldown() is over, retries--
CooldownOver ==
  /\ pc = "cooldown"
  /\ \E over \in RunOvershoots : ApplyCooldown(over)
  /\ retries' = retries - 1
  /\ error' = "none"
  /\ WhileTest(retries', exported)
  /\ UNCHANGED <<documents, exported, successCount, errorCount>>
  /\ UNCHANGED hlHist
  /\ UNCHANGED <<histVars, cpVars, cpHist, dsVars>>

\* line 190: await rateLimiter.waitForNextSlot() is over
RetryWaitOver ==
  /\ pc = "retryWait"
  /\ \E o1 \in RunOvershoots, o2 \in RunOvershoots : WaitForNextSlot(o1, o2)
  /\ error' = "none"
  /\ WhileTest(retries, exported)
  /\ slotsSince' = slotsSince + 1
  /\ UNCHANGED <<documents, retries, exported, successCount, errorCount>>
  /\ UNCHANGED <<attempts, signals, signalCount, sessionPending, retriesAtThrow>>
  /\ UNCHANGED <<histVars, cpVars, cpHist, dsVars>>

NextHeadless ==
  \/ NextDocument
  \/ ExportReturns
  \/ ExportThrows
  \/ ExportSucceeded
  \/ CatchError
  \/ CooldownOver
  \/ RetryWaitOver

SpecHeadless == InitHeadless /\ [][NextHeadless]_vars

Docs == 1..Len(documents)

\* C3 as claimed (attempt bound): no document has more than maxRetries
\* exportDocument invocations, whatever errors they raised.
AttemptBound == \A d \in Docs : attempts[d] <= config.maxRetries

\* C3 as amended: the invocations of a document that did not end in a rate-limit
\* signal are at most maxRetries; all of them, at most maxRetries plus its signals.
AttemptBoundCounted == \A d \in Docs : attempts[d] - signals[d] <= config.maxRetries

\* a document that failed maxRetries times and met a rate-limit signal on the way
AttemptBoundWitness ==
  \E d \in Docs :
    /\ signals[d] >= 1
    /\ attempts[d] - signals[d] = config.maxRetries
    /\ i >= d

\* C4 as claimed (pacing gate): whenever exportDocument is about to be invoked,
\* exactly one waitForNextSlot() call has completed since the previous invocation
\* (since the start of the run for the first one).
PacingGate == pc = "attempt" => slotsSince = 1

\* C8 as claimed (session escalation): after an attempt raised session-expired,
\* handling it leaves the retry counter as it was when the error was thrown, and
\* no attempt is started while nothing has re-authenticated.
SessionEscalation ==
  sessionPending =>
    /\ pc # "attempt"
    /\ pc \in {"retryWait", "cooldown"} => retries = retriesAtThrow

\* C18 (single in-flight job): an exportDocument invocation is in flight exactly
\* while the loop is at its await; the only step taken there is the return or the
\* throw of that invocation, for the document the loop is at; no invocation ends
\* anywhere else; and the loop comes to the await only from the waits that follow
\* the end of the previous invocation (or the start of the document).
SingleInFlight ==
  [][/\ pc = "attempt" =>
          /\ pc' \in {"returned", "thrown"}
          /\ attempts' = [attempts EXCEPT ![i + 1] = @ + 1]
     /\ pc # "attempt" => attempts' = attempts
     /\ (pc' = "attempt" /\ pc # "attempt") => pc \in {"top", "cooldown", "retryWait"}]_vars

\* the first attempt for the second document is in flight; the first document took
\* two attempts
SingleInFlightWitness ==
  /\ pc = "attempt"
  /\ i = 1
  /\ attempts[1] = 2
  /\ attempts[2] = 0

\* C13 (rate-limit signal handling): the catch branch goes to applyCooldown()
\* exactly for an error that is a rate-limit signal; one such cooldown sleeps
\* cooldownPeriod and resets the limiter, and when it is over the retry counter is
\* what it was before the attempt and the failure counter has not moved.
SignalHandling ==
  [][/\ pc = "thrown" =>
          /\ (pc' = "cooldown") = IsRateLimitSignal(error)
          /\ IsRateLimitSignal(error) => errorCount' = errorCount
     /\ pc' = "cooldown" => pc = "thrown"
     /\ pc = "cooldown" =>
          /\ pc' \in {"attempt", "top", "done"}
          /\ clock' >= clock + config.cooldownPeriod
          /\ requestTimes' = <<>>
          /\ retries' = retriesAtThrow
          /\ errorCount' = errorCount]_vars

\* a second attempt met a rate-limit signal, the cooldown is over and the attempt
\* that follows is about to start with the retry counter still at 1
SignalHandlingWitness ==
  /\ pc = "attempt"
  /\ signals[i + 1] >= 1
  /\ requestTimes = <<>>
  /\ retries = 1
  /\ retriesAtThrow = 1
  /\ errorCount = 0

----------------------------------------------------------------------------
(* SpecCookie: downloadAllScribes of the exporter that signs in with a       *)
(* pasted session cookie (unnamed/part_013), from the document list on.  Its *)
(* RateLimiter randomizes the delay, and its RATE_LIMIT_CONFIG has no        *)
(* cooldownPeriod.                                                           *)

\* occasionalLongPause in percent
RATE_LIMIT_CONFIG_PART_013 ==
  [requestsPerMinute |-> 10,
   minDelayMs |-> 3000,
   maxDelayMs |-> 30000,
   backoffMultiplier |-> [n |-> 3, e |-> 1],
   maxRetries |-> 3,
   randomFactor |-> [n |-> 1, e |-> 1],
   occasionalLongPause |-> 10,
   longPauseMultiplier |-> 3]

\* the messages exportDocument throws (lines 428-435)
CookieSessionMessage == "Session expired - need fresh cookie"
CookieErrors ==
  {CookieSessionMessage,
   "Export timeout - document may be too large",
   "Export failed: Could not find Share button",
   "Export failed: page.goto: net::ERR_ABORTED at https://scribehow.com/shared/Guide__429",
   "Export failed: rate limit exceeded",
   "Export failed: too many requests"}

\* error.message.includes('429') || error.message.includes('rate limit')
IsCookieRateLimitSignal(message) ==
  message \in {"Export failed: page.goto: net::ERR_ABORTED at https://scribehow.com/shared/Guide__429",
               "Export failed: rate limit exceeded"}

\* Math.random() < occasionalLongPause, and the Math.random() of line 58, in a run
CookieLongPauseDraws == {FALSE, TRUE}
CookieRandomDraws == {[n |-> 1, e |-> 1]}

\* randomizedDelay of lines 47-58
HumanDelay(delay, cfg, long, r) ==
  LET baseDelay == IF long THEN DyMul(delay, DyInt(cfg.longPauseMultiplier)) ELSE delay
      minDelay == DyMul(baseDelay, DySub(DyInt(1), cfg.randomFactor))
      maxDelay == DyMul(baseDelay, DyAdd(DyInt(1), cfg.randomFactor))
  IN  DyAdd(minDelay, DyMul(r, DySub(maxDelay, minDelay)))

\* Date.now() at lines 67-68 of the call that starts now
HumanRecordTime(long, r, o1, o2) ==
  LET now == clock
      kept == CleanUp(requestTimes, now)
      t1 == AfterSleep(now, CapWaitTime(kept, now, config), o1)
      randomizedDelay == HumanDelay(currentDelay, config, long, r)
  IN  AfterSleep(t1, DyFloor(DelayWaitTime(now, lastRequestTime, randomizedDelay)), o2)

\* RateLimiter.waitForNextSlot of part_013 (lines 30-69)
HumanWaitForNextSlot(long, r, o1, o2) ==
  /\ requestTimes' = Append(CleanUp(requestTimes, clock), HumanRecordTime(long, r, o1, o2))
  /\ lastRequestTime' = HumanRecordTime(long, r, o1, o2)
  /\ clock' = HumanRecordTime(long, r, o1, o2)
  /\ UNCHANGED <<config, currentDelay, consecutiveErrors>>

SomeHumanWait ==
  \E long \in CookieLongPauseDraws, r \in CookieRandomDraws,
     o1 \in RunOvershoots, o2 \in RunOvershoots : HumanWaitForNextSlot(long, r, o1, o2)

\* how many documents collectAllDocuments returned
CookieCounts == {1, 2}

InitCookie ==
  /\ NoExport
  /\ NoCollection
  /\ Constructed(RATE_LIMIT_CONFIG_PART_013)
  /\ clock = Epoch
  /\ HistoryInit
  /\ \E n \in CookieCounts : documents = DocumentList(n)
  /\ i = 0
  /\ pc = "top"
  /\ retries = 0
  /\ exported = FALSE
  /\ successCount = 0
  /\ errorCount = 0
  /\ error = "none"
  /\ attempts = [d \in 1..Len(documents) |-> 0]
  /\ signals = [d \in 1..Len(documents) |-> 0]
  /\ signalCount = 0
  /\ slotsSince = 0
  /\ sessionPending = FALSE
  /\ retriesAtThrow = 0
  /\ NoComprehensive
  /\ NoDiscovery

\* lines 222-225: await rateLimiter.waitForNextSlot(), then the retry loop starts
CookieNextDocument ==
  /\ pc = "top"
  /\ SomeHumanWait
  /\ retries' = 0
  /\ exported' = FALSE
  /\ WhileTest(0, FALSE)
  /\ slotsSince' = slotsSince + 1
  /\ UNCHANGED <<documents, successCount, errorCount, error>>
  /\ UNCHANGED <<attempts, signals, signalCount, sessionPending, retriesAtThrow>>
  /\ UNCHANGED <<histVars, cpVars, cpHist, dsVars>>

\* line 233: await exportDocument(page, doc, downloadsDir) throws
CookieExportThrows ==
  /\ pc = "attempt"
  /\ \E message \in CookieErrors :
       /\ IsCookieRateLimitSignal(message) => signalCount < MaxSignals
       /\ error' = message
       /\ signals' = [signals EXCEPT ![i + 1] = IF IsCookieRateLimitSignal(message) THEN @ + 1 ELSE @]
       /\ signalCount' = IF IsCookieRateLimitSignal(message) THEN signalCount + 1 ELSE signalCount
       /\ sessionPending' = (sessionPending \/ message = CookieSessionMessage)
  /\ \E d \in ExportDurations : clock' = clock + d
  /\ pc' = "thrown"
  /\ attempts' = [attempts EXCEPT ![i + 1] = @ + 1]
  /\ slotsSince' = 0
  /\ retriesAtThrow' = retries
  /\ UNCHANGED <<config, requestTimes, currentDelay, consecutiveErrors, lastRequestTime>>
  /\ UNCHANGED <<documents, i, retries, exported, successCount, errorCount>>
  /\ UNCHANGED <<histVars, cpVars, cpHist, dsVars>>

\* lines 238-253 up to the await of the branch taken
CookieCatchError ==
  /\ pc = "thrown"
  /\ retries' = retries + 1
  /\ HandleError
  /\ IF IsCookieRateLimitSignal(error)
       THEN /\ pc' = "cooldown"
            /\ UNCHANGED <<i, errorCount, error>>
       ELSE IF retries' < config.maxRetries
         THEN /\ pc' = "retryWait"
              /\ UNCHANGED <<i, errorCount, error>>
         ELSE /\ errorCount' = errorCount + 1
              /\ error' = "none"
              /\ WhileTest(retries', exported)
  /\ UNCHANGED <<documents, exported, successCount>>
  /\ UNCHANGED hlHist
  /\ UNCHANGED <<histVars, cpVars, cpHist, dsVars>>

\* line 248: await rateLimiter.waitForNextSlot() is over
CookieRetryWaitOver ==
  /\ pc = "retryWait"
  /\ SomeHumanWait
  /\ error' = "none"
  /\ WhileTest(retries, exported)
  /\ slotsSince' = slotsSince + 1
  /\ UNCHANGED <<documents, retries, exported, successCount, errorCount>>
  /\ UNCHANGED <<attempts, signals, signalCount, sessionPending, retriesAtThrow>>
  /\ UNCHANGED <<histVars, cpVars, cpHist, dsVars>>

\* lines 233-237 and 243-245 are those of the headless exporter
NextCookie ==
  \/ CookieNextDocument
  \/ ExportReturns
  \/ CookieExportThrows
  \/ ExportSucceeded
  \/ CookieCatchError
  \/ CooldownOver
  \/ CookieRetryWaitOver

SpecCookie == InitCookie /\ [][NextCookie]_vars

\* C33 (cooldown suspends): in every exporter that calls applyCooldown(), the
\* export attempt that follows a rate-limit signal does not start before the
\* cooldown period of 60000 ms has gone by since the signal was handled.
CooldownSuspends ==
  [][(pc = "cooldown" /\ pc' = "attempt") =>
       clock' >= clock + RATE_LIMIT_CONFIG.cooldownPeriod]_vars

----------------------------------------------------------------------------
(* SpecComprehensive: downloadAllScribes of the comprehensive exporter       *)
(* (unnamed/part_008), from the document list on, with its own RateLimiter   *)
(* and ProgressTracker.  The script can be killed during the export loop and *)
(* started again; ./progress.json stays on disk.                             *)

CheckpointInterval == 25

\* randomFactor and occasionalLongPause in percent
COMPREHENSIVE_CONFIG ==
  [minDelayMs |-> 2000,
   maxRetries |-> 3,
   randomFactor |-> 30,
   occasionalLongPause |-> 5,
   longPauseMultiplier |-> 2,
   progressReportInterval |-> 10]

\* maxRetries is COMPREHENSIVE_CONFIG's or a smaller one set through MAX_RETRIES
ComprehensiveConfigs ==
  {[COMPREHENSIVE_CONFIG EXCEPT !.maxRetries = r] : r \in 1..COMPREHENSIVE_CONFIG.maxRetries}

\* the messages exportDocument throws (lines 382, 402-407)
ComprehensiveErrors == {"Session expired", "Could not find PDF Export button"}

\* how long one exportDocument call takes: at least its fixed waits
ComprehensiveDurations == {5000}

\* Math.random() < occasionalLongPause, and Math.random() in percent, in a run
LongPauseDraws == {FALSE}
JitterDraws == {50}

\* new ProgressTracker(totalDocs)
NewProgressTracker(totalDocs) ==
  [totalDocs |-> totalDocs, successful |-> 0, failed |-> 0, current |-> 0,
   failedDocs |-> <<>>]

\* randomizedDelay of RateLimiter.waitForNextSlot, to the millisecond
RandomizedDelay(cfg, long, r) ==
  LET baseDelay == IF long THEN cfg.minDelayMs * cfg.longPauseMultiplier ELSE cfg.minDelayMs
      minDelay == (baseDelay * (100 - cfg.randomFactor)) \div 100
      maxDelay == (baseDelay * (100 + cfg.randomFactor)) \div 100
  IN  minDelay + (r * (maxDelay - minDelay)) \div 100

\* RateLimiter.waitForNextSlot of part_008: it keeps lastRequestTime only
PacedWait(long, r, over) ==
  LET timeSinceLastRequest == clock - lastRequestTime
      randomizedDelay == RandomizedDelay(config, long, r)
      waitTime == IF timeSinceLastRequest < randomizedDelay
                  THEN randomizedDelay - timeSinceLastRequest ELSE 0
  IN  /\ clock' = AfterSleep(clock, waitTime, over)
      /\ lastRequestTime' = clock'
      /\ slotsSince' = slotsSince + 1

SomePacedWait ==
  \E long \in LongPauseDraws, r \in JitterDraws, over \in RunOvershoots : PacedWait(long, r, over)

\* a reportProgress that does not record failures
ReportProgressLosingFailures(p, docTitle, ok, message) ==
  [p EXCEPT !.current = @ + 1, !.successful = IF ok THEN @ + 1 ELSE @]

\* ProgressTracker.reportProgress(docTitle, success, error), error?.message = message
ReportProgress(p, docTitle, ok, message) ==
  IF ok
  THEN [p EXCEPT !.current = @ + 1, !.successful = @ + 1]
  ELSE [p EXCEPT !.current = @ + 1, !.failed = @ + 1,
                 !.failedDocs = Append(@, [title |-> docTitle, error |-> message])]

\* error?.message of lastError
MessageOf(e) == IF e = "null" THEN "undefined" ELSE e

\* a slice that starts one element early
SliceFromBefore(docs, currentIndex) == SubSeq(docs, currentIndex, Len(docs))

\* allDocuments.slice(currentIndex)
Slice(docs, currentIndex) == SubSeq(docs, currentIndex + 1, Len(docs))

\* a saveProgress that counts the next document as completed
ProgressDataOffByOne(p, docs, currentIndex) ==
  [timestamp |-> clock,
   completed |-> currentIndex + 1,
   total |-> Len(docs),
   successful |-> p.successful,
   failed |-> p.failed,
   remaining |-> SubSeq(docs, currentIndex + 1, Len(docs))]

\* the progressData of saveProgress(progress, allDocuments, currentIndex)
ProgressData(p, docs, currentIndex) ==
  [timestamp |-> clock,
   completed |-> currentIndex,
   total |-> Len(docs),
   successful |-> p.successful,
   failed |-> p.failed,
   remaining |-> Slice(docs, currentIndex)]

\* a loop that never writes a checkpoint
CheckpointNeverDue(k) == FALSE

\* (i + 1) % 25 === 0
CheckpointDue(k) == k % CheckpointInterval = 0

\* a catch branch that keeps the first error instead
FirstErrorKept(old, message) == IF old = "null" THEN message ELSE old

\* lastError = error
CaughtError(old, message) == message

\* the script starts and has found n documents
Started(n) ==
  /\ allDocuments = DocumentList(n)
  /\ progress = NewProgressTracker(n)
  /\ i = 0
  /\ pc = "top"
  /\ retry = 0
  /\ success = FALSE
  /\ lastError = "null"
  /\ finalReport = <<>>
  /\ attempts = [d \in 1..n |-> 0]
  /\ outcome = [d \in 1..n |-> "pending"]
  /\ thrown = [d \in 1..n |-> <<>>]
  /\ faults = 0
  /\ slotsSince = 0

ComprehensiveCounts == (1..MaxDocs) \cup {CheckpointInterval + ExtraDocs}

\* how many exportDocument calls of one list may throw: few in a long list
FaultBudget(n) == IF n > MaxDocs THEN MaxLongFaults ELSE MaxFaults

\* Date.now() when the script is started for the k-th time again
RestartClock(k) == Epoch + k * RestartGap

InitComprehensive ==
  /\ NoExport
  /\ NoCollection
  /\ \E cfg \in ComprehensiveConfigs : config = cfg
  /\ lastRequestTime = 0
  /\ clock = Epoch
  /\ \E n \in ComprehensiveCounts : Started(n)
  /\ progressFile = <<>>
  /\ startFile = <<>>
  /\ NoDiscovery
  /\ restarts = 0
  \* the rest of the other scripts' state is not used
  /\ requestTimes = <<>>
  /\ currentDelay = DyInt(0)
  /\ consecutiveErrors = 0
  /\ HistoryInit
  /\ documents = <<>>
  /\ retries = 0
  /\ exported = FALSE
  /\ successCount = 0
  /\ errorCount = 0
  /\ error = "none"
  /\ signals = <<>>
  /\ signalCount = 0
  /\ sessionPending = FALSE
  /\ retriesAtThrow = 0

outsideComprehensive ==
  <<requestTimes, currentDelay, consecutiveErrors, histVars, documents, retries, exported,
    successCount, errorCount, error, signals, signalCount, sessionPending, retriesAtThrow,
    dsVars>>

\* for (let retry = 0; retry < maxRetries; retry++)
RetryLoopGoesOn(r) == r < config.maxRetries

\* an export loop that passes over every other document
DocumentDoneSkipping(ok, e) ==
  /\ progress' = ReportProgress(progress, allDocuments[i + 1].title, ok, MessageOf(e))
  /\ outcome' = [outcome EXCEPT ![i + 1] = IF ok THEN "exported" ELSE "failed"]
  /\ progressFile' = progressFile
  /\ i' = i + 2
  /\ pc' = IF i + 2 < Len(allDocuments) THEN "top" ELSE "report"

\* lines 181-190 and the i++ of the for loop: the document is done
DocumentDone(ok, e) ==
  /\ progress' = ReportProgress(progress, allDocuments[i + 1].title, ok, MessageOf(e))
  /\ outcome' = [outcome EXCEPT ![i + 1] = IF ok THEN "exported" ELSE "failed"]
  /\ progressFile' = IF CheckpointDue(i + 1)
                     THEN <<ProgressData(progress', allDocuments, i + 1)>>
                     ELSE progressFile
  /\ i' = i + 1
  /\ pc' = IF i + 1 < Len(allDocuments) THEN "top" ELSE "report"

\* lines 151-162: await rateLimiter.waitForNextSlot(), then the retry loop starts
CompNextDocument ==
  /\ pc = "top"
  /\ SomePacedWait
  /\ success' = FALSE
  /\ lastError' = "null"
  /\ retry' = 0
  /\ IF RetryLoopGoesOn(0)
     THEN /\ pc' = "attempt"
          /\ UNCHANGED <<i, progress, progressFile, outcome>>
     ELSE DocumentDone(FALSE, "null")
  /\ UNCHANGED <<config, allDocuments, finalReport, attempts, thrown, faults, restarts, startFile>>
  /\ UNCHANGED outsideComprehensive

\* line 168: await exportDocument returns; success = true; break
CompExportReturns ==
  /\ pc = "attempt"
  /\ \E d \in ComprehensiveDurations : clock' = clock + d
  /\ attempts' = [attempts EXCEPT ![i + 1] = @ + 1]
  /\ slotsSince' = 0
  /\ success' = TRUE
  /\ DocumentDone(TRUE, lastError)
  /\ UNCHANGED <<config, lastRequestTime, allDocuments, retry, lastError, finalReport,
                 thrown, faults, restarts, startFile>>
  /\ UNCHANGED outsideComprehensive

\* line 168: await exportDocument throws; lines 172-178 up to the await
CompExportThrows ==
  /\ pc = "attempt"
  /\ faults < FaultBudget(Len(allDocuments))
  /\ \E d \in ComprehensiveDurations : clock' = clock + d
  /\ attempts' = [attempts EXCEPT ![i + 1] = @ + 1]
  /\ slotsSince' = 0
  /\ faults' = faults + 1
  /\ \E message \in ComprehensiveErrors :
       /\ thrown' = [thrown EXCEPT ![i + 1] = Append(@, message)]
       /\ lastError' = CaughtError(lastError, message)
  /\ IF retry < config.maxRetries - 1
     THEN /\ pc' = "retryWait"
          /\ UNCHANGED <<i, retry, progress, progressFile, outcome>>
     ELSE /\ retry' = retry + 1
          /\ IF RetryLoopGoesOn(retry')
             THEN /\ pc' = "attempt"
                  /\ UNCHANGED <<i, progress, progressFile, outcome>>
             ELSE DocumentDone(success, lastError')
  /\ UNCHANGED <<config, lastRequestTime, allDocuments, success, finalReport, restarts, startFile>>
  /\ UNCHANGED outsideComprehensive

\* line 176: await rateLimiter.waitForNextSlot() is over; retry++ and the loop test
CompRetryWaitOver ==
  /\ pc = "retryWait"
  /\ SomePacedWait
  /\ retry' = retry + 1
  /\ IF RetryLoopGoesOn(retry')
     THEN /\ pc' = "attempt"
          /\ UNCHANGED <<i, progress, progressFile, outcome>>
     ELSE DocumentDone(success, lastError)
  /\ UNCHANGED <<config, allDocuments, success, lastError, finalReport, attempts, thrown,
                 faults, restarts, startFile>>
  /\ UNCHANGED outsideComprehensive

\* lines 193-204: getFinalReport and saveFinalReport
CompFinalReport ==
  /\ pc = "report"
  /\ finalReport' = <<[total |-> progress.totalDocs,
                       successful |-> progress.successful,
                       failed |-> progress.failed,
                       failedDocs |-> progress.failedDocs]>>
  /\ pc' = "done"
  /\ UNCHANGED <<config, lastRequestTime, clock, i, attempts, slotsSince, allDocuments, progress,
                 retry, success, lastError, progressFile, outcome, thrown, faults, restarts,
                 startFile>>
  /\ UNCHANGED outsideComprehensive

\* the process is killed during the export loop and the script is started again:
\* lines 103-147 run afresh and find the same documents; nothing reads ./progress.json
CompRestart ==
  /\ pc \in {"top", "attempt", "retryWait"}
  /\ restarts < MaxRestarts
  /\ restarts' = restarts + 1
  /\ startFile' = progressFile
  /\ allDocuments' = allDocuments
  /\ progress' = NewProgressTracker(Len(allDocuments))
  /\ i' = 0
  /\ pc' = "top"
  /\ retry' = 0
  /\ success' = FALSE
  /\ lastError' = "null"
  /\ finalReport' = <<>>
  /\ attempts' = [d \in 1..Len(allDocuments) |-> 0]
  /\ outcome' = [d \in 1..Len(allDocuments) |-> "pending"]
  /\ thrown' = [d \in 1..Len(allDocuments) |-> <<>>]
  /\ slotsSince' = 0
  /\ lastRequestTime' = 0
  /\ clock' = RestartClock(restarts')
  /\ UNCHANGED <<config, progressFile, faults>>
  /\ UNCHANGED outsideComprehensive

NextComprehensive ==
  \/ CompNextDocument
  \/ CompExportReturns
  \/ CompExportThrows
  \/ CompRetryWaitOver
  \/ CompFinalReport
  \/ CompRestart

SpecComprehensive == InitComprehensive /\ [][NextComprehensive]_vars

----------------------------------------------------------------------------
(* Properties of the comprehensive run *)

AllDocs == 1..Len(allDocuments)

Exported == {d \in AllDocs : outcome[d] = "exported"}
Failed == {d \in AllDocs : outcome[d] = "failed"}

\* the place of document d in failedDocs when d has failed
FailedUpTo(d) == Cardinality({e \in 1..d : outcome[e] = "failed"})

LastOf(s) == s[Len(s)]

NoSilentDrop ==
  pc = "done" =>
    /\ \A d \in AllDocs : outcome[d] \in {"exported", "failed"}
    /\ progress.successful = Cardinality(Exported)
    /\ progress.failed = Cardinality(Failed)
    /\ progress.successful + progress.failed = Len(allDocuments)
    /\ Len(progress.failedDocs) = Cardinality(Failed)
    /\ \A d \in Failed :
         /\ progress.failedDocs[FailedUpTo(d)].title = allDocuments[d].title
         /\ progress.failedDocs[FailedUpTo(d)].error \notin {"", "undefined", "null"}
    /\ finalReport = <<[total |-> Len(allDocuments),
                        successful |-> Cardinality(Exported),
                        failed |-> Cardinality(Failed),
                        failedDocs |-> progress.failedDocs]>>

\* the run has ended with one document exported at its second attempt and one failed
NoSilentDropWitness ==
  /\ pc = "done"
  /\ \E d \in Exported : thrown[d] # <<>>
  /\ Failed # {}

\* C6: every write of ./progress.json has successful + failed = completed, and
\* completed is the number of documents the export loop is done with.
CheckpointCounters ==
  [][progressFile' # progressFile =>
       /\ progressFile'[1].successful + progressFile'[1].failed = progressFile'[1].completed
       /\ progressFile'[1].completed =
            Cardinality({d \in 1..Len(allDocuments') : outcome'[d] # "pending"})
       /\ progressFile'[1].completed = i']_vars

\* a checkpoint was written after a failed document
CheckpointCountersWitness ==
  /\ progressFile # <<>>
  /\ progressFile[1].failed > 0
  /\ progressFile[1].successful > 0

\* C9: a run started while ./progress.json holds a snapshot does not export a
\* document the snapshot counts as completed.
ResumeSkipsCompleted ==
  startFile # <<>> =>
    \A d \in AllDocs : d <= startFile[1].completed => attempts[d] = 0

\* C21 (snapshot at run end): when the export loop has gone through the whole
\* list, ./progress.json holds a snapshot of the final state: completed = total
\* and nothing remaining, whatever the length of the list.
SnapshotAtRunEnd ==
  pc = "done" =>
    /\ progressFile # <<>>
    /\ progressFile[1].completed = Len(allDocuments)
    /\ progressFile[1].total = Len(allDocuments)
    /\ progressFile[1].remaining = <<>>

\* completed of the last snapshot written, 0 when there is none
LastCompleted == IF progressFile = <<>> THEN 0 ELSE progressFile[1].completed

\* C34 (checkpoint loss bound): at every moment of the export loop, at most 25
\* documents have reached a terminal outcome without being counted as completed in
\* the snapshot written last.
CheckpointLossBound ==
  Cardinality({d \in AllDocs : outcome[d] # "pending" /\ d > LastCompleted}) <= CheckpointInterval

\* 24 documents are done, no snapshot has been written and the 25th is being exported
CheckpointLossBoundWitness ==
  /\ progressFile = <<>>
  /\ i = CheckpointInterval - 1
  /\ Cardinality({d \in AllDocs : outcome[d] # "pending"}) = CheckpointInterval - 1
  /\ pc = "attempt"

\* C35 (snapshot consistency): at every write of ./progress.json, remaining is the
\* suffix of the document list that starts at index completed: completed +
\* length(remaining) = total, no document with an outcome is in remaining and every
\* document without an outcome is.
SnapshotConsistency ==
  [][progressFile' # progressFile =>
       LET snapshot == progressFile'[1]
           docs == allDocuments'
       IN  /\ snapshot.completed + Len(snapshot.remaining) = snapshot.total
           /\ snapshot.total = Len(docs)
           /\ \A k \in 1..Len(snapshot.remaining) :
                 snapshot.remaining[k] = docs[snapshot.completed + k]
           /\ \A d \in 1..Len(docs) :
                 outcome'[d] = "pending" <=> d > snapshot.completed]_vars

\* a snapshot was written with a document remaining
SnapshotConsistencyWitness ==
  /\ progressFile # <<>>
  /\ progressFile[1].completed = CheckpointInterval
  /\ Len(progressFile[1].remaining) >= 1
  /\ progressFile[1].remaining[1] = allDocuments[CheckpointInterval + 1]

----------------------------------------------------------------------------
(* SpecDiscovery: exploreAllDocuments of the comprehensive exporter          *)
(* (unnamed/part_008).  A folder is named by its number in its view, a view  *)
(* by the path of folder names that leads to it: <<>> is 'Root', <<f>> is    *)
(* folder.name and <<f, g>> is `${folder.name}/${subfolder.name}`.           *)

\* the documents of the workspace, by the number of their link
Hrefs == {1, 2, 3}

\* el.textContent?.trim() || 'Untitled' of the link to a document
TitleOf(href) == IF href % 2 = 0 THEN "Untitled" ELSE "Guide"

\* the links a view can show when at most n more are found: any list of hrefs
LinkLists(n) == UNION {[1..k -> Hrefs] : k \in 0..n}

\* getDocumentsFromCurrentView(page, folderName) when the view shows links
DocumentsFromCurrentView(links, folderName) ==
  [k \in 1..Len(links) |-> [href |-> links[k], title |-> TitleOf(links[k]), folder |-> folderName]]

\* how many subfolders a folder view shows
SubfolderCounts == {0, 1}

\* getFoldersFromCurrentView(page) when the view shows n folders
FoldersFromCurrentView(n) == [k \in 1..n |-> k]

\* the last index of self that holds href
FindLastIndex(self, href) ==
  CHOOSE k \in 1..Len(self) :
    /\ self[k].href = href
    /\ \A l \in (k + 1)..Len(self) : self[l].href # href

\* self.findIndex(d => d.href === href), from 1, for an href that self holds
FindIndex(self, href) ==
  CHOOSE k \in 1..Len(self) :
    /\ self[k].href = href
    /\ \A l \in 1..(k - 1) : self[l].href # href

RECURSIVE FilterFrom(_, _)
\* the elements self[k..] that filter((doc, index, self) => index === findIndex) keeps
FilterFrom(self, k) ==
  IF k > Len(self)
  THEN <<>>
  ELSE (IF k = FindIndex(self, self[k].href) THEN <<self[k]>> ELSE <<>>)
       \o FilterFrom(self, k + 1)

\* an exploration that returns all it has pushed
KeepAll(self) == self

\* lines 294-297: remove duplicates
RemoveDuplicates(self) == FilterFrom(self, 1)

outsideDiscovery ==
  <<rlVars, histVars, documents, retries, exported, successCount, errorCount, error, hlHist,
    progress, retry, success, lastError, progressFile, finalReport, cpHist, runVars, exVars,
    exHist, coVars, rcVars>>

InitDiscovery ==
  /\ NoExport
  /\ NoCollection
  /\ allDocuments = <<>>
  /\ i = 0
  /\ pc = "root"
  /\ NoDiscovery
  \* the state of the export loops is not used
  /\ config = COMPREHENSIVE_CONFIG
  /\ requestTimes = <<>>
  /\ currentDelay = DyInt(0)
  /\ consecutiveErrors = 0
  /\ lastRequestTime = 0
  /\ clock = Epoch
  /\ HistoryInit
  /\ documents = <<>>
  /\ retries = 0
  /\ exported = FALSE
  /\ successCount = 0
  /\ errorCount = 0
  /\ error = "none"
  /\ attempts = <<>>
  /\ signals = <<>>
  /\ signalCount = 0
  /\ slotsSince = 0
  /\ sessionPending = FALSE
  /\ retriesAtThrow = 0
  /\ progress = "none"
  /\ retry = 0
  /\ success = FALSE
  /\ lastError = "null"
  /\ progressFile = <<>>
  /\ finalReport = <<>>
  /\ outcome = <<>>
  /\ thrown = <<>>
  /\ faults = 0
  /\ restarts = 0
  /\ startFile = <<>>

\* the links the view of folderName shows in a given workspace
ShownLinks(folderName) ==
  IF folderName = <<>> THEN workspace[1].root
  ELSE IF Len(folderName) = 1 THEN workspace[1].folders[folderName[1]].links
  ELSE workspace[1].folders[folderName[1]].subfolders[folderName[2]]

\* what page.$$eval can return for the links, the folders and the subfolders of a view
LinkChoices(folderName) ==
  IF workspace = <<>> THEN LinkLists(MaxFound - Len(allDocuments)) ELSE {ShownLinks(folderName)}
FolderChoices ==
  IF workspace = <<>> THEN 0..MaxFolders ELSE {Len(workspace[1].folders)}
SubfolderChoices(f) ==
  IF workspace = <<>> THEN SubfolderCounts ELSE {Len(workspace[1].folders[f].subfolders)}

\* getDocumentsFromCurrentView returns and allDocuments.push(...) takes its result
PushView(folderName) ==
  \E links \in LinkChoices(folderName) :
    LET docs == DocumentsFromCurrentView(links, folderName)
    IN  /\ allDocuments' = allDocuments \o docs
        /\ views' = Append(views, [folder |-> folderName, docs |-> docs])

\* i++ of the folder loop; after the last folder lines 294-300 run
NextFolder(found) ==
  /\ i' = i + 1
  /\ subfolders' = <<>>
  /\ subfolderIndex' = 0
  /\ IF i + 1 < Len(folders')
     THEN /\ pc' = "folder"
          /\ uniqueDocuments' = uniqueDocuments
     ELSE /\ pc' = "explored"
          /\ uniqueDocuments' = RemoveDuplicates(found)

\* lines 234-248: the workspace view, its documents and its folders
ExploreRoot ==
  /\ pc = "root"
  /\ PushView(<<>>)
  /\ \E n \in FolderChoices : folders' = FoldersFromCurrentView(n)
  /\ i' = 0
  /\ IF Len(folders') > 0
     THEN /\ pc' = "folder"
          /\ uniqueDocuments' = uniqueDocuments
     ELSE /\ pc' = "explored"
          /\ uniqueDocuments' = RemoveDuplicates(allDocuments')
  /\ UNCHANGED <<subfolders, subfolderIndex>>
  /\ UNCHANGED outsideDiscovery

\* an exploration that gives up at the first folder it cannot open
FolderClickAborts ==
  /\ pc = "folder"
  /\ UNCHANGED <<folders, allDocuments, views, subfolders, subfolderIndex>>
  /\ i' = Len(folders)
  /\ pc' = "explored"
  /\ uniqueDocuments' = RemoveDuplicates(allDocuments)
  /\ UNCHANGED outsideDiscovery

\* line 256 throws: the folder is skipped (line 289)
FolderClickFails ==
  /\ pc = "folder"
  /\ UNCHANGED <<folders, allDocuments, views>>
  /\ NextFolder(allDocuments)
  /\ UNCHANGED outsideDiscovery

\* lines 256-265: the folder opens, its documents and its subfolders
FolderOpened ==
  /\ pc = "folder"
  /\ PushView(<<folders[i + 1]>>)
  /\ \E n \in SubfolderChoices(folders[i + 1]) :
       IF n > 0
       THEN /\ subfolders' = FoldersFromCurrentView(n)
            /\ subfolderIndex' = 0
            /\ pc' = "subfolder"
            /\ UNCHANGED <<i, folders, uniqueDocuments>>
       ELSE /\ UNCHANGED folders
            /\ NextFolder(allDocuments')
  /\ UNCHANGED outsideDiscovery

\* the for-of loop takes the next subfolder, or lines 285-287 and the next folder
NextSubfolder(found) ==
  IF subfolderIndex + 1 < Len(subfolders)
  THEN /\ subfolderIndex' = subfolderIndex + 1
       /\ pc' = "subfolder"
       /\ UNCHANGED <<i, folders, subfolders, uniqueDocuments>>
  ELSE /\ UNCHANGED folders
       /\ NextFolder(found)

\* line 270 throws: the subfolder is skipped (line 281)
SubfolderClickFails ==
  /\ pc = "subfolder"
  /\ UNCHANGED <<allDocuments, views>>
  /\ NextSubfolder(allDocuments)
  /\ UNCHANGED outsideDiscovery

\* lines 270-279: the subfolder opens, its documents, and back
SubfolderOpened ==
  /\ pc = "subfolder"
  /\ PushView(<<folders[i + 1], subfolders[subfolderIndex + 1]>>)
  /\ NextSubfolder(allDocuments')
  /\ UNCHANGED outsideDiscovery

NextDiscovery ==
  \/ ExploreRoot
  \/ FolderClickFails
  \/ FolderOpened
  \/ SubfolderClickFails
  \/ SubfolderOpened

SpecDiscovery == InitDiscovery /\ [][NextDiscovery]_vars

----------------------------------------------------------------------------
(* Properties of the exploration *)

\* the hrefs a view returned
HrefsOf(docs) == {docs[k].href : k \in 1..Len(docs)}

FoundHrefs == UNION {HrefsOf(views[v].docs) : v \in 1..Len(views)}

\* the first view, in traversal order, that returned href
FirstView(href) ==
  CHOOSE v \in 1..Len(views) :
    /\ href \in HrefsOf(views[v].docs)
    /\ \A u \in 1..(v - 1) : href \notin HrefsOf(views[u].docs)

\* C7: the list exploreAllDocuments returns holds every href some view returned
\* exactly once and no other href, and each entry carries the folder of the first
\* view, in traversal order, that returned its href.
DiscoveryDedup ==
  pc = "explored" =>
    /\ HrefsOf(uniqueDocuments) = FoundHrefs
    /\ Cardinality(FoundHrefs) = Len(uniqueDocuments)
    /\ \A k \in 1..Len(uniqueDocuments) :
         /\ uniqueDocuments[k].folder = views[FirstView(uniqueDocuments[k].href)].folder
         /\ uniqueDocuments[k].title = TitleOf(uniqueDocuments[k].href)

\* folder 1 = {doc1, doc2}, folder 2 = {doc2, doc3}: doc1, doc2, doc3 with doc2 from folder 1
DiscoveryDedupWitness ==
  /\ pc = "explored"
  /\ Len(views) = 3
  /\ views[1].docs = <<>>
  /\ views[2] = [folder |-> <<1>>, docs |-> DocumentsFromCurrentView(<<1, 2>>, <<1>>)]
  /\ views[3] = [folder |-> <<2>>, docs |-> DocumentsFromCurrentView(<<2, 3>>, <<2>>)]
  /\ uniqueDocuments = DocumentsFromCurrentView(<<1, 2>>, <<1>>)
                         \o DocumentsFromCurrentView(<<3>>, <<2>>)

----------------------------------------------------------------------------
(* SpecRun: the whole script of the comprehensive exporter (unnamed/part_008) *)
(* on a given workspace: login, exploreAllDocuments, the export loop, the     *)
(* final report and the end of the process.  The site shows the same links    *)
(* every time a view is opened; a click on a folder can still fail.           *)

\* s with x put in after its first p elements
InsertAt(s, p, x) == SubSeq(s, 1, p) \o <<x>> \o SubSeq(s, p + 1, Len(s))

\* the links of three folders that hold 2, 3 and 1 documents, five documents in
\* all, numbered as they are met, one of them in two folders
ScenarioLinks ==
  {<<<<1, 2>>, InsertAt(<<3, 4>>, p, d), <<5>>>> : p \in 0..2, d \in {1, 2}}
    \cup {<<<<1, 2>>, <<3, 4, 5>>, <<d>>>> : d \in 1..5}

\* three folders side by side, or the second one inside the first
Flat(l) ==
  [root |-> <<>>,
   folders |-> <<[links |-> l[1], subfolders |-> <<>>],
                 [links |-> l[2], subfolders |-> <<>>],
                 [links |-> l[3], subfolders |-> <<>>]>>]
Nested(l) ==
  [root |-> <<>>,
   folders |-> <<[links |-> l[1], subfolders |-> <<l[2]>>],
                 [links |-> l[3], subfolders |-> <<>>]>>]

\* a workspace without anything, and one with two links to one document in its root
EmptyWorkspace == [root |-> <<>>, folders |-> <<>>]
RootOnlyWorkspace == [root |-> <<1, 1>>, folders |-> <<>>]

Workspaces ==
  {Flat(l) : l \in ScenarioLinks} \cup {Nested(l) : l \in ScenarioLinks}
    \cup {EmptyWorkspace, RootOnlyWorkspace}

InitRun ==
  /\ NoExport
  /\ NoCollection
  /\ \E w \in Workspaces : workspace = <<w>>
  /\ exitCode = -1
  /\ ending = "running"
  /\ pc = "login"
  /\ config = COMPREHENSIVE_CONFIG
  /\ lastRequestTime = 0
  /\ clock = Epoch
  /\ allDocuments = <<>>
  /\ i = 0
  /\ folders = <<>>
  /\ subfolders = <<>>
  /\ subfolderIndex = 0
  /\ uniqueDocuments = <<>>
  /\ views = <<>>
  /\ progress = "none"
  /\ retry = 0
  /\ success = FALSE
  /\ lastError = "null"
  /\ progressFile = <<>>
  /\ finalReport = <<>>
  /\ outcome = <<>>
  /\ thrown = <<>>
  /\ faults = 0
  /\ restarts = 0
  /\ startFile = <<>>
  /\ attempts = <<>>
  /\ slotsSince = 0
  \* the state of the other script is not used
  /\ requestTimes = <<>>
  /\ currentDelay = DyInt(0)
  /\ consecutiveErrors = 0
  /\ HistoryInit
  /\ documents = <<>>
  /\ retries = 0
  /\ exported = FALSE
  /\ successCount = 0
  /\ errorCount = 0
  /\ error = "none"
  /\ signals = <<>>
  /\ signalCount = 0
  /\ sessionPending = FALSE
  /\ retriesAtThrow = 0

\* what neither the login nor the end of the process touches
besidesControl ==
  <<rlVars, histVars, documents, i, retries, exported, successCount, errorCount, error, hlHist,
    cpVars, cpHist, folders, subfolders, subfolderIndex, uniqueDocuments, views, workspace,
    exVars, exHist, coVars, rcVars>>

\* lines 213-217 and the end of the process: nothing sets an exit code
ProcessEnds(how) ==
  /\ pc' = "ended"
  /\ exitCode' = 0
  /\ ending' = how

\* line 131: await directLogin(...) returns
LoginSucceeds ==
  /\ pc = "login"
  /\ pc' = "root"
  /\ UNCHANGED <<exitCode, ending>>
  /\ UNCHANGED besidesControl

\* line 131: await directLogin(...) throws; lines 213-217
LoginFails ==
  /\ pc = "login"
  /\ ProcessEnds("authFailed")
  /\ UNCHANGED besidesControl

\* lines 136-147: exploreAllDocuments has returned
StartExport ==
  /\ pc = "explored"
  /\ IF Len(uniqueDocuments) = 0
     THEN /\ ProcessEnds("noDocuments")
          /\ UNCHANGED <<allDocuments, progress, i, attempts, outcome, thrown>>
     ELSE /\ allDocuments' = uniqueDocuments
          /\ progress' = NewProgressTracker(Len(uniqueDocuments))
          /\ i' = 0
          /\ pc' = "top"
          /\ attempts' = [d \in 1..Len(uniqueDocuments) |-> 0]
          /\ outcome' = [d \in 1..Len(uniqueDocuments) |-> "pending"]
          /\ thrown' = [d \in 1..Len(uniqueDocuments) |-> <<>>]
          /\ UNCHANGED <<exitCode, ending>>
  /\ UNCHANGED <<rlVars, histVars, documents, retries, exported, successCount, errorCount, error,
                 signals, signalCount, slotsSince, sessionPending, retriesAtThrow,
                 retry, success, lastError, progressFile, finalReport, faults, restarts, startFile,
                 folders, subfolders, subfolderIndex, uniqueDocuments, views, workspace,
                 exVars, exHist, coVars, rcVars>>

\* lines 206-217 and the end of the process
RunEnds ==
  /\ pc = "done"
  /\ ProcessEnds("processed")
  /\ UNCHANGED besidesControl

NextRun ==
  \/ LoginSucceeds
  \/ LoginFails
  \/ ExploreRoot
  \/ FolderClickFails
  \/ FolderOpened
  \/ SubfolderClickFails
  \/ SubfolderOpened
  \/ StartExport
  \/ CompNextDocument
  \/ CompExportReturns
  \/ CompExportThrows
  \/ CompRetryWaitOver
  \/ CompFinalReport
  \/ RunEnds

SpecRun == InitRun /\ [][NextRun]_vars

----------------------------------------------------------------------------
(* Properties of the whole run *)

\* the exploration is over
Explored == pc \notin {"login", "root", "folder", "subfolder"}

\* the exploration opened three folders and found 2, 3 and 1 links in them, to
\* five documents in all, and none in the root
ThreeFoldersExplored ==
  /\ Explored
  /\ Len(views) = 4
  /\ Len(views[1].docs) = 0
  /\ Len(views[2].docs) = 2
  /\ Len(views[3].docs) = 3
  /\ Len(views[4].docs) = 1
  /\ Cardinality(FoundHrefs) = 5

\* C15 (end to end): when three folders hold 2, 3 and 1 documents with one document
\* in two of them, exploreAllDocuments returns 5 documents; and when then no export
\* attempt fails, exportDocument is invoked once for each of the 5 and
\* export-report.json has total = 5, successful = 5, failed = 0 and no failedDocs.
EndToEnd ==
  ThreeFoldersExplored =>
    /\ Len(uniqueDocuments) = 5
    /\ (ending = "processed" /\ faults = 0) =>
         /\ Len(allDocuments) = 5
         /\ \A d \in 1..5 : attempts[d] = 1
         /\ finalReport = <<[total |-> 5, successful |-> 5, failed |-> 0, failedDocs |-> <<>>]>>

\* such a run, with the second folder inside the first, has ended
EndToEndWitness ==
  /\ ThreeFoldersExplored
  /\ Len(folders) = 2
  /\ ending = "processed"
  /\ faults = 0
  /\ finalReport # <<>>

\* C16 (folder failure isolation): a folder or subfolder whose click fails (no view
\* is returned for it) only moves the loop on to the next one, with the documents
\* pushed so far kept; the exploration ends after the last folder of the list,
\* with every document of every view returned in its result; and a non-empty
\* result is handed to the export loop.
FolderIsolation ==
  [][/\ (pc = "folder" /\ views' = views) =>
          /\ allDocuments' = allDocuments
          /\ i' = i + 1
          /\ pc' = IF i + 1 < Len(folders) THEN "folder" ELSE "explored"
     /\ (pc = "subfolder" /\ views' = views) =>
          /\ allDocuments' = allDocuments
          /\ IF subfolderIndex + 1 < Len(subfolders)
             THEN pc' = "subfolder" /\ subfolderIndex' = subfolderIndex + 1 /\ i' = i
             ELSE i' = i + 1 /\ pc' = IF i + 1 < Len(folders) THEN "folder" ELSE "explored"
     /\ pc' = "explored" =>
          /\ i' = Len(folders')
          /\ \A v \in 1..Len(views') : HrefsOf(views'[v].docs) \subseteq HrefsOf(uniqueDocuments')
     /\ (pc = "explored" /\ uniqueDocuments # <<>>) =>
          /\ pc' = "top"
          /\ allDocuments' = uniqueDocuments]_vars

\* the second of three folders could not be opened; the documents of the first and
\* of the third are being exported
FolderIsolationWitness ==
  /\ workspace # <<>>
  /\ Len(folders) = 3
  /\ Len(views) = 3
  /\ views[2].folder = <<1>>
  /\ views[3].folder = <<3>>
  /\ pc = "attempt"
  /\ HrefsOf(allDocuments) = HrefsOf(views[2].docs) \cup HrefsOf(views[3].docs)

\* the export loop has been entered
Exporting == pc \in {"top", "attempt", "retryWait", "report", "done"} \/ ending = "processed"

RECURSIVE FlattenViews(_)
\* the documents of the first k views, folder after folder
FlattenViews(k) == IF k = 0 THEN <<>> ELSE FlattenViews(k - 1) \o views[k].docs

\* where href is met first when the views are read in traversal order
FirstOccurrence(href) ==
  CHOOSE k \in 1..Len(FlattenViews(Len(views))) :
    /\ FlattenViews(Len(views))[k].href = href
    /\ \A l \in 1..(k - 1) : FlattenViews(Len(views))[l].href # href

\* C17 (processing order): the export loop works on the list exploreAllDocuments
\* returned, which has the documents in the order in which traversal met each for
\* the first time; a document is attempted only when all documents before it in
\* the list are done, each of them attempted; and at the end none was left out.
ProcessingOrder ==
  /\ Explored =>
       \A k \in 1..Len(uniqueDocuments) : \A l \in (k + 1)..Len(uniqueDocuments) :
         FirstOccurrence(uniqueDocuments[k].href) < FirstOccurrence(uniqueDocuments[l].href)
  /\ Exporting =>
       /\ allDocuments = uniqueDocuments
       /\ \A d \in AllDocs :
            attempts[d] > 0 =>
              /\ d <= i + 1
              /\ \A e \in 1..(d - 1) : attempts[e] > 0 /\ outcome[e] # "pending"
       /\ ending = "processed" => \A d \in AllDocs : attempts[d] > 0

\* the document of the first folder that the second folder shows again, ahead of
\* its own, has kept its place: the fourth document is being exported after three
ProcessingOrderWitness ==
  /\ Exporting
  /\ Len(views) = 4
  /\ views[3].docs[1].href \in HrefsOf(views[2].docs)
  /\ Len(allDocuments) = 5
  /\ pc = "attempt"
  /\ i = 3
  /\ \A d \in 1..3 : attempts[d] > 0

\* C20 (run outcome): the run ends with a non-zero exit code exactly when the
\* authentication failed or the discovery found no document; a run that has
\* gone through its whole queue ends with exit code 0, whatever the outcome of
\* its documents.
RunOutcome ==
  pc = "ended" =>
    /\ (exitCode # 0) <=> (ending \in {"authFailed", "noDocuments"})
    /\ ending = "processed" => exitCode = 0

----------------------------------------------------------------------------
(* SpecExport: exportDocument of scribe-exporter-headless-only.js, one       *)
(* driver call at a time, under the export loop of downloadAllScribes.  The  *)
(* limiter's calls in the loop return and are not followed here: their       *)
(* effect on the limiter is in SpecHeadless.  Nothing in this specification  *)
(* counts attempts, so that a run may go on forever.                         *)

\* lines 306-312
shareSelectors ==
  <<"button:has-text(\"Share\")", "[data-testid=\"share-button\"]",
    "button[aria-label*=\"Share\"]", ".share-button", "[title*=\"Share\"]">>

\* line 327
menuSelectors == <<"[data-testid*=\"menu\"]", ".menu-button", "button[aria-expanded]">>

\* lines 355-359
pdfExportSelectors ==
  <<"text=Export to PDF >> .. >> button:has-text(\"Export\")",
    "button:has-text(\"Export\"):near(:text(\"PDF\"))",
    ".pdf-export button:has-text(\"Export\")">>

\* the titles collectAllDocuments found
Titles == {"Untitled", "Q3 Plan", "q3-plan"}

\* how many documents it found
ExportCounts == {1, 2}

\* the lists it returned: distinct hrefs, any titles
ExportLists ==
  UNION {{[d \in 1..n |-> [href |-> d, title |-> t[d]]] : t \in [1..n -> Titles]} :
         n \in ExportCounts}

\* line 380: document.title.replace(/[^a-z0-9]/gi, '_').toLowerCase()
CleanTitle(document) ==
  CASE document.title = "Untitled" -> "untitled"
    [] document.title = "Q3 Plan" -> "q3_plan"
    [] document.title = "q3-plan" -> "q3_plan"

\* lines 381-382: the name of the file under downloadsDir
Filename(document) == CleanTitle(document) \o ".pdf"

\* what page.goto throws when it throws
GotoMessages ==
  {"page.goto: net::ERR_ABORTED at https://scribehow.com/shared/Guide__429",
   "page.goto: net::ERR_CONNECTION_RESET"}

\* what a click or the wait for the download throws when its time is up, in the
\* wording of two versions of the driver
TimeoutMessages ==
  {"Timeout 30000ms exceeded.", "waiting failed: timeout 30000ms exceeded"}

\* what download.saveAs throws when it throws
SaveAsMessages == {"ENOSPC: no space left on device"}

\* line 392: error.message.includes('timeout'), on the messages above
IncludesTimeout(message) == message = "waiting failed: timeout 30000ms exceeded"

\* lines 387-396: the error exportDocument throws for an error caught on a page at url
Rethrown(url, message) ==
  IF url = "signin" THEN SessionExpiredMessage
  ELSE IF IncludesTimeout(message) THEN "Export timeout - document may be too large"
  ELSE "Export failed: " \o message

outsideExport ==
  <<rlVars, histVars, documents, hlHist, cpVars, cpHist, folders, subfolders, subfolderIndex,
    uniqueDocuments, views, runVars, coVars, rcVars>>

InitExport ==
  /\ NoCollection
  /\ Constructed(RATE_LIMIT_CONFIG)
  /\ clock = Epoch
  /\ HistoryInit
  /\ \E docs \in ExportLists : documents = docs
  /\ i = 0
  /\ pc = "top"
  /\ retries = 0
  /\ exported = FALSE
  /\ successCount = 0
  /\ errorCount = 0
  /\ error = "none"
  /\ step = "idle"
  /\ selector = 0
  /\ pageUrl = "blank"
  /\ downloadPromise = "none"
  /\ downloadsDir = [name \in {Filename(documents[d]) : d \in 1..Len(documents)} |-> <<>>]
  /\ trace = <<>>
  /\ pendingWaits = {}
  /\ persistFailed = {}
  /\ overwritten = {}
  \* the rest is not used
  /\ attempts = <<>>
  /\ signals = <<>>
  /\ signalCount = 0
  /\ slotsSince = 0
  /\ sessionPending = FALSE
  /\ retriesAtThrow = 0
  /\ NoComprehensive
  /\ NoDiscovery

\* lines 158-167: await rateLimiter.waitForNextSlot() returns, then the retry loop starts
JobNextDocument ==
  /\ pc = "top"
  /\ retries' = 0
  /\ exported' = FALSE
  /\ WhileTest(0, FALSE)
  /\ UNCHANGED <<successCount, errorCount, error, exVars, exHist, outsideExport>>

\* lines 174-177, then the loop ends
JobSucceeded ==
  /\ pc = "returned"
  /\ successCount' = successCount + 1
  /\ exported' = TRUE
  /\ WhileTest(retries, exported')
  /\ UNCHANGED <<retries, errorCount, error, exVars, exHist, outsideExport>>

\* lines 179-195 up to the await of the branch taken
JobCatchError ==
  /\ pc = "thrown"
  /\ retries' = retries + 1
  /\ IF IsRateLimitSignal(error)
       THEN /\ pc' = "cooldown"
            /\ UNCHANGED <<i, errorCount, error>>
       ELSE IF retries' < config.maxRetries
         THEN /\ pc' = "retryWait"
              /\ UNCHANGED <<i, errorCount, error>>
         ELSE /\ errorCount' = errorCount + 1
              /\ error' = "none"
              /\ WhileTest(retries', exported)
  /\ UNCHANGED <<exported, successCount, exVars, exHist, outsideExport>>

\* lines 186-187: await rateLimiter.applyCooldown() returns, retries--
JobCooldownOver ==
  /\ pc = "cooldown"
  /\ retries' = retries - 1
  /\ error' = "none"
  /\ WhileTest(retries', exported)
  /\ UNCHANGED <<exported, successCount, errorCount, exVars, exHist, outsideExport>>

\* line 190: await rateLimiter.waitForNextSlot() returns
JobRetryWaitOver ==
  /\ pc = "retryWait"
  /\ error' = "none"
  /\ WhileTest(retries, exported)
  /\ UNCHANGED <<retries, exported, successCount, errorCount, exVars, exHist, outsideExport>>

\* what a step of exportDocument leaves alone
besidesExport ==
  <<documents, i, retries, exported, successCount, errorCount, outsideExport>>

\* the call goes on to the step named
GoesOn(to, first) ==
  /\ step' = to
  /\ selector' = first
  /\ pc' = pc
  /\ error' = error
  /\ pendingWaits' = pendingWaits

\* lines 387-396: the error is caught on a page at url and exportDocument throws;
\* a downloadPromise that is pending stays so
Throws(url, message) ==
  /\ error' = Rethrown(url, message)
  /\ pc' = "thrown"
  /\ step' = "idle"
  /\ selector' = 0
  /\ pendingWaits' = IF downloadPromise = "pending" THEN pendingWaits \cup {i + 1}
                     ELSE pendingWaits

\* lines 296-299: exportDocument is called
ExportStarts ==
  /\ pc = "attempt"
  /\ step = "idle"
  /\ GoesOn("goto", 0)
  /\ downloadPromise' = "none"
  /\ trace' = <<>>
  /\ UNCHANGED <<pageUrl, downloadsDir, persistFailed, overwritten, besidesExport>>

\* lines 301-303: page.goto(document.href) shows the document, is redirected to the
\* sign-in page, or throws
Goto ==
  /\ step = "goto"
  /\ trace' = Append(trace, "Navigate")
  /\ \/ \E url \in {"document", "signin"} :
          /\ pageUrl' = url
          /\ GoesOn("share", 1)
     \/ \E message \in GotoMessages :
          /\ pageUrl' = pageUrl
          /\ Throws(pageUrl, message)
  /\ UNCHANGED <<downloadPromise, downloadsDir, persistFailed, overwritten, besidesExport>>

\* a share step without the fallback: it throws after the last shareSelectors click
ClickShareSelectorOnly ==
  /\ step = "share"
  /\ trace' = IF selector = 1 THEN Append(trace, "OpenShareSurface") ELSE trace
  /\ \/ /\ pageUrl = "document"
        /\ GoesOn("exportTab", 0)
     \/ IF selector < Len(shareSelectors)
          THEN GoesOn("share", selector + 1)
          ELSE Throws(pageUrl, "Could not find Share button")
  /\ UNCHANGED <<pageUrl, downloadPromise, downloadsDir, persistFailed, overwritten,
                 besidesExport>>

\* lines 314-323: page.click(shareSelectors[selector]); the sign-in page has no such
\* element
ClickShareSelector ==
  /\ step = "share"
  /\ trace' = IF selector = 1 THEN Append(trace, "OpenShareSurface") ELSE trace
  /\ \/ /\ pageUrl = "document"
        /\ GoesOn("exportTab", 0)
     \/ IF selector < Len(shareSelectors)
          THEN GoesOn("share", selector + 1)
          ELSE GoesOn("menu", 1)
  /\ UNCHANGED <<pageUrl, downloadPromise, downloadsDir, persistFailed, overwritten,
                 besidesExport>>

\* lines 325-343: the clicks for menuSelectors[selector], and the throw after the last
ClickMenuSelector ==
  /\ step = "menu"
  /\ \/ /\ pageUrl = "document"
        /\ GoesOn("exportTab", 0)
     \/ IF selector < Len(menuSelectors)
          THEN GoesOn("menu", selector + 1)
          ELSE Throws(pageUrl, "Could not find Share button")
  /\ UNCHANGED <<pageUrl, downloadPromise, downloadsDir, trace, persistFailed, overwritten,
                 besidesExport>>

\* an export-tab step that, when its click fails, goes back to the share step
ClickExportTabRetrying ==
  /\ step = "exportTab"
  /\ trace' = Append(trace, "OpenExportSurface")
  /\ \/ GoesOn("arm", 0)
     \/ GoesOn("share", 1)
  /\ UNCHANGED <<pageUrl, downloadPromise, downloadsDir, persistFailed, overwritten,
                 besidesExport>>

\* lines 345-349: page.click('text=Export')
ClickExportTab ==
  /\ step = "exportTab"
  /\ trace' = Append(trace, "OpenExportSurface")
  /\ \/ GoesOn("arm", 0)
     \/ \E message \in TimeoutMessages : Throws(pageUrl, message)
  /\ UNCHANGED <<pageUrl, downloadPromise, downloadsDir, persistFailed, overwritten,
                 besidesExport>>

\* line 352: const downloadPromise = page.waitForDownload({ timeout: 30000 })
WaitForDownload ==
  /\ step = "arm"
  /\ downloadPromise' = "pending"
  /\ trace' = Append(trace, "Arm")
  /\ GoesOn("pdf", 1)
  /\ UNCHANGED <<pageUrl, downloadsDir, persistFailed, overwritten, besidesExport>>

\* an export step that clicks first and sets up the wait afterwards
ClickPdfExportSelectorUnarmed ==
  /\ step \in {"arm", "pdf"}
  /\ trace' = Append(trace, "TriggerExport")
  /\ downloadPromise' = "pending"
  /\ GoesOn("await", 0)
  /\ UNCHANGED <<pageUrl, downloadsDir, persistFailed, overwritten, besidesExport>>

\* lines 361-374: page.click(pdfExportSelectors[selector]), and the throw after the last
ClickPdfExportSelector ==
  /\ step = "pdf"
  /\ trace' = IF selector = 1 THEN Append(trace, "TriggerExport") ELSE trace
  /\ \/ GoesOn("await", 0)
     \/ IF selector < Len(pdfExportSelectors)
          THEN GoesOn("pdf", selector + 1)
          ELSE Throws(pageUrl, "Could not find PDF Export button")
  /\ UNCHANGED <<pageUrl, downloadPromise, downloadsDir, persistFailed, overwritten,
                 besidesExport>>

\* line 377: const download = await downloadPromise
AwaitDownload ==
  /\ step = "await"
  /\ trace' = Append(trace, "AwaitArtifact")
  /\ \/ /\ downloadPromise' = "resolved"
        /\ GoesOn("saveAs", 0)
     \/ /\ downloadPromise' = "rejected"
        /\ \E message \in TimeoutMessages :
             /\ error' = Rethrown(pageUrl, message)
             /\ pc' = "thrown"
             /\ step' = "idle"
             /\ selector' = 0
             /\ pendingWaits' = pendingWaits
  /\ UNCHANGED <<pageUrl, downloadsDir, persistFailed, overwritten, besidesExport>>

\* lines 379-385: download.saveAs(path.join(downloadsDir, filename)) writes the file
\* and exportDocument returns, or it throws
SaveAs ==
  /\ step = "saveAs"
  /\ trace' = Append(trace, "Persist")
  /\ LET document == documents[i + 1]
         name == Filename(document)
     IN \/ /\ downloadsDir' = [downloadsDir EXCEPT ![name] = <<document.href>>]
           /\ overwritten' = IF downloadsDir[name] \notin {<<>>, <<document.href>>}
                             THEN overwritten \cup {downloadsDir[name][1]}
                             ELSE overwritten
           /\ persistFailed' = persistFailed
           /\ step' = "idle"
           /\ selector' = 0
           /\ pc' = "returned"
           /\ error' = error
           /\ pendingWaits' = pendingWaits
        \/ /\ \E message \in SaveAsMessages : Throws(pageUrl, message)
           /\ persistFailed' = persistFailed \cup {i + 1}
           /\ UNCHANGED <<downloadsDir, overwritten>>
  /\ UNCHANGED <<pageUrl, downloadPromise, besidesExport>>

\* a wait left pending by a finished call is settled by its timer: nothing awaits
\* the rejection
WaitTimesOut ==
  /\ \E d \in pendingWaits : pendingWaits' = pendingWaits \ {d}
  /\ UNCHANGED <<pc, error, exVars, trace, persistFailed, overwritten, besidesExport>>

NextExport ==
  \/ JobNextDocument
  \/ JobSucceeded
  \/ JobCatchError
  \/ JobCooldownOver
  \/ JobRetryWaitOver
  \/ ExportStarts
  \/ Goto
  \/ ClickShareSelector
  \/ ClickMenuSelector
  \/ ClickExportTab
  \/ WaitForDownload
  \/ ClickPdfExportSelector
  \/ AwaitDownload
  \/ SaveAs
  \/ WaitTimesOut

SpecExport == InitExport /\ [][NextExport]_vars

\* every call and every sleep returns
SpecExportFair == SpecExport /\ WF_vars(NextExport)

----------------------------------------------------------------------------
(* Properties of exportDocument *)

\* the place of an entry of trace in the order of the workflow
Rank(entry) ==
  CASE entry = "Navigate" -> 1
    [] entry = "OpenShareSurface" -> 2
    [] entry = "OpenExportSurface" -> 3
    [] entry = "Arm" -> 4
    [] entry = "TriggerExport" -> 5
    [] entry = "AwaitArtifact" -> 6
    [] entry = "Persist" -> 7

\* C22 (collision-resistant persistence): the file a successful export has saved
\* for a document is never replaced by the export of another document, whatever
\* the titles of the two.
NoOverwrite == overwritten = {}

\* C23 (persist failure): once download.saveAs has thrown for a document, no
\* further exportDocument call is made for it: the loop handles the error and
\* leaves the document.
PersistFailureFatal ==
  (i + 1) \in persistFailed => (step = "idle" /\ pc \in {"thrown", "retryWait", "cooldown"})

\* C24 (armed before click): whenever exportDocument is at the click on a PDF export
\* selector, or has passed it, the wait for the download was set up before, in the
\* same call.
ArmedBeforeClick ==
  /\ step = "pdf" => downloadPromise = "pending"
  /\ \A k \in 1..Len(trace) :
       trace[k] = "TriggerExport" => \E j \in 1..(k - 1) : trace[j] = "Arm"

\* the click on a PDF export selector went through and the download is awaited
ArmedBeforeClickWitness ==
  /\ step = "await"
  /\ downloadPromise = "pending"
  /\ trace[Len(trace)] = "TriggerExport"

\* C25 (run termination): whatever errors the exportDocument calls throw, the run
\* comes to its final report.
RunTermination == <>(pc = "done")

\* C26 (forward-only workflow): what a call has done is at every moment an initial
\* part of Navigate, OpenShareSurface, OpenExportSurface, (Arm,) TriggerExport,
\* AwaitArtifact, Persist, each once and in this order; a call that throws has
\* ended; and a call starts at Navigate with nothing done.
ForwardOnly ==
  [][/\ \A k \in 1..Len(trace') : Rank(trace'[k]) = k
     /\ (step = "idle" /\ step' # "idle") => (step' = "goto" /\ trace' = <<>>)
     /\ (step = "goto" /\ step' \notin {"idle", "goto"}) => trace' = <<"Navigate">>
     /\ (pc # "thrown" /\ pc' = "thrown") => step' = "idle"]_vars

\* the call after one whose download.saveAs threw has navigated again and is at
\* the share step
ForwardOnlyWitness ==
  /\ (i + 1) \in persistFailed
  /\ retries = 1
  /\ step = "share"
  /\ trace = <<"Navigate">>

\* C27 (no dangling armed wait): when exportDocument is not running, the wait its
\* last call armed is not pending, and no wait of an earlier call is.
NoDanglingWait ==
  /\ step = "idle" => downloadPromise # "pending"
  /\ pendingWaits = {}

\* the clicks of exportDocument that open the share surface are going on
SharePending == step \in {"share", "menu"}

\* C31 (share-surface fallback): the shareSelectors are clicked in list order and
\* the first click that succeeds ends the search; the menuSelectors are tried when
\* and only when every shareSelectors click has failed; 'Could not find Share
\* button' is thrown when and only when the clicks for the last menuSelectors
\* entry have failed too, and then the Export tab is not clicked.
ShareFallback ==
  [][/\ (step # "share" /\ step' = "share") => selector' = 1
     /\ (step = "share" /\ step' = "share" /\ selector' # selector) => selector' = selector + 1
     /\ (step = "share" /\ step' # "share") =>
          \/ step' = "exportTab"
          \/ step' = "menu" /\ selector = Len(shareSelectors) /\ selector' = 1
     /\ (step # "menu" /\ step' = "menu") => step = "share" /\ selector = Len(shareSelectors)
     /\ (step = "menu" /\ step' = "menu" /\ selector' # selector) => selector' = selector + 1
     /\ (step = "menu" /\ step' # "menu") =>
          \/ step' = "exportTab"
          \/ /\ selector = Len(menuSelectors)
             /\ step' = "idle"
             /\ pc' = "thrown"
             /\ error' = Rethrown(pageUrl, "Could not find Share button")
             /\ \A k \in 1..Len(trace') : trace'[k] # "OpenExportSurface"
     /\ (pc # "thrown" /\ pc' = "thrown" /\ error' = "Export failed: Could not find Share button") =>
          step = "menu" /\ selector = Len(menuSelectors)
     /\ (step' = "exportTab" /\ step # "exportTab") => SharePending]_vars

\* on the page of the document every click for the share surface has failed, and
\* exportDocument has thrown without a click on the Export tab
ShareFallbackWitness ==
  /\ pc = "thrown"
  /\ pageUrl = "document"
  /\ error = "Export failed: Could not find Share button"
  /\ trace = <<"Navigate", "OpenShareSurface">>

\* C29 (immediate session detection): on the sign-in page exportDocument tries no
\* share selector: the call ends right after the navigation.
SessionDetectedOnArrival ==
  (pageUrl = "signin" /\ step \notin {"idle", "goto"}) => trace = <<"Navigate">>

----------------------------------------------------------------------------
(* SpecCollect: collectAllDocuments of scribe-exporter-headless-only.js on   *)
(* one page.  A strategy is given by what it does on that page: it throws,   *)
(* or it returns a list of links.                                            *)

\* the hrefs of the elements of the page
PageHrefs ==
  {"https://scribehow.com/shared/A", "https://scribehow.com/viewer/B",
   "https://example.com/shared/C"}

\* doc.href.includes('scribehow.com'), on the hrefs above
IncludesScribehow(href) ==
  href \in {"https://scribehow.com/shared/A", "https://scribehow.com/viewer/B"}

\* the elements a strategy maps: one or two, with any of the hrefs
PageLinks == {[href |-> h, title |-> "Untitled"] : h \in PageHrefs}

\* what a strategy may return
StrategyResults ==
  {<<>>} \cup {<<a>> : a \in PageLinks} \cup {<<a, b>> : a \in PageLinks, b \in PageLinks}

\* what a strategy may do
StrategyOutcomes ==
  {[throws |-> TRUE, docs |-> <<>>]} \cup {[throws |-> FALSE, docs |-> l] : l \in StrategyResults}

RECURSIVE ValidFrom(_, _)
\* the elements docs[k..] that filter(doc => doc.href && doc.href.includes('scribehow.com')) keeps
ValidFrom(docs, k) ==
  IF k > Len(docs)
  THEN <<>>
  ELSE (IF IncludesScribehow(docs[k].href) THEN <<docs[k]>> ELSE <<>>) \o ValidFrom(docs, k + 1)

\* lines 287-291
UniqueDocuments(docs) == RemoveDuplicates(ValidFrom(docs, 1))

outsideCollect ==
  <<rlVars, histVars, documents, i, retries, exported, successCount, errorCount, error, hlHist,
    progress, retry, success, lastError, progressFile, finalReport, cpHist, folders, subfolders,
    subfolderIndex, views, runVars, exVars, exHist, rcVars>>

\* the second strategy filters in the page (line 250): what it returns is valid
FilteredInPage(docs) == ValidFrom(docs, 1) = docs

InitCollect ==
  /\ \E s \in [1..3 -> StrategyOutcomes] :
       /\ FilteredInPage(s[2].docs)
       /\ strategies = s
  /\ strategyIndex = 0
  /\ invoked = <<>>
  /\ allDocuments = <<>>
  /\ uniqueDocuments = <<>>
  /\ pc = "strategies"
  \* the rest is not used
  /\ frames = <<>>
  /\ location = <<>>
  /\ NoExport
  /\ i = 0
  /\ folders = <<>>
  /\ subfolders = <<>>
  /\ subfolderIndex = 0
  /\ views = <<>>
  /\ workspace = <<>>
  /\ exitCode = -1
  /\ ending = "running"
  /\ Constructed(RATE_LIMIT_CONFIG)
  /\ clock = Epoch
  /\ HistoryInit
  /\ documents = <<>>
  /\ retries = 0
  /\ exported = FALSE
  /\ successCount = 0
  /\ errorCount = 0
  /\ error = "none"
  /\ attempts = <<>>
  /\ signals = <<>>
  /\ signalCount = 0
  /\ slotsSince = 0
  /\ sessionPending = FALSE
  /\ retriesAtThrow = 0
  /\ progress = "none"
  /\ retry = 0
  /\ success = FALSE
  /\ lastError = "null"
  /\ progressFile = <<>>
  /\ finalReport = <<>>
  /\ outcome = <<>>
  /\ thrown = <<>>
  /\ faults = 0
  /\ restarts = 0
  /\ startFile = <<>>

\* a loop that adds what every strategy finds and goes on
TryStrategyMerging ==
  /\ pc = "strategies"
  /\ LET strategy == strategies[strategyIndex + 1]
     IN /\ invoked' = Append(invoked, strategyIndex + 1)
        /\ strategyIndex' = strategyIndex + 1
        /\ allDocuments' = allDocuments \o strategy.docs
        /\ pc' = IF strategyIndex + 1 < Len(strategies) THEN "strategies" ELSE "filter"
  /\ UNCHANGED <<strategies, uniqueDocuments, outsideCollect>>

\* lines 273-284: one turn of the for-of loop
TryStrategy ==
  /\ pc = "strategies"
  /\ LET strategy == strategies[strategyIndex + 1]
     IN /\ invoked' = Append(invoked, strategyIndex + 1)
        /\ strategyIndex' = strategyIndex + 1
        /\ IF ~strategy.throws /\ Len(strategy.docs) > 0
             THEN /\ allDocuments' = strategy.docs
                  /\ pc' = "filter"
             ELSE /\ allDocuments' = allDocuments
                  /\ pc' = IF strategyIndex + 1 < Len(strategies) THEN "strategies" ELSE "filter"
  /\ UNCHANGED <<strategies, uniqueDocuments, outsideCollect>>

\* lines 286-293: remove duplicates and invalid entries, return
ReturnUnique ==
  /\ pc = "filter"
  /\ uniqueDocuments' = UniqueDocuments(allDocuments)
  /\ pc' = "collected"
  /\ UNCHANGED <<strategies, strategyIndex, invoked, allDocuments, outsideCollect>>

NextCollect ==
  \/ TryStrategy
  \/ ReturnUnique

SpecCollect == InitCollect /\ [][NextCollect]_vars

----------------------------------------------------------------------------
(* Properties of collectAllDocuments *)

\* the strategies that return a non-empty list without throwing
Yielding == {k \in 1..Len(strategies) : ~strategies[k].throws /\ strategies[k].docs # <<>>}

\* the first of them
FirstYielding == CHOOSE k \in Yielding : \A l \in Yielding : k <= l

\* C30 (first non-empty strategy wins): what collectAllDocuments returns comes from
\* the first strategy that returns a non-empty list without throwing, and from no
\* other; the strategies up to that one were called, in order, and none after it;
\* when no strategy yields, all were called and the result is empty.
FirstNonEmptyWins ==
  pc = "collected" =>
    IF Yielding = {}
    THEN /\ uniqueDocuments = <<>>
         /\ invoked = [k \in 1..Len(strategies) |-> k]
    ELSE /\ allDocuments = strategies[FirstYielding].docs
         /\ uniqueDocuments = UniqueDocuments(strategies[FirstYielding].docs)
         /\ invoked = [k \in 1..FirstYielding |-> k]

\* C38 (extraction is empty only when all strategies are): once some strategy
\* has returned a non-empty list, the list collectAllDocuments returns after the
\* validity and duplicate filters is non-empty.
NonEmptyOnceYielding ==
  pc = "collected" /\ Yielding # {} => uniqueDocuments # <<>>

\* the first strategy threw, the second returned a link, and the third, which
\* would have returned another one, was not called
FirstNonEmptyWinsWitness ==
  /\ pc = "collected"
  /\ strategies[1].throws
  /\ strategies[2].docs # <<>>
  /\ strategies[3].docs # <<>>
  /\ strategies[3].docs # strategies[2].docs
  /\ invoked = <<1, 2>>
  /\ uniqueDocuments # <<>>

----------------------------------------------------------------------------
(* SpecRecursive: the folder exploration of scribe-recursive.js.  The calls  *)
(* of exploreFolderRecursive that have not returned are kept in frames.  The *)
(* folder records of its ProgressTracker are not followed.  The pages show   *)
(* subfolders down to depth MaxDepth - 1 only, so that the model is finite.  *)

\* lines 260-265: the first two of the nineteen names
mainFolders == <<"Unsorted", "3CX">>

\* line 108, as the list of the names joined by ' > '
FullPath(frame) == Append(frame.parentPath, frame.folderName)

\* lines 122-134: the links of the view of a folder: one, named after the folder
FolderDocs(frame) ==
  <<[href |-> frame.folderName, title |-> "Guide", folder |-> FullPath(frame)]>>

\* lines 199-227: what findSubfolders may return: the heuristic takes any short
\* clickable text for a folder, the names of the navigation included
FoundSubfolders == {<<>>, <<"Unsorted", "3CX">>}

RECURSIVE ClickedPaths(_)
\* where a row of clickFolder calls for the names of path leads from 'All
\* Documents': clickFolder returns false when it finds nothing to click, and the
\* row goes on
ClickedPaths(path) ==
  IF path = <<>>
  THEN {<<>>}
  ELSE LET before == ClickedPaths(SubSeq(path, 1, Len(path) - 1))
       IN  before \cup {Append(l, path[Len(path)]) : l \in before}

\* the call exploreFolderRecursive(folderName, parentPath) at its start
Call(folderName, parentPath) ==
  [folderName |-> folderName, parentPath |-> parentPath, subfolders |-> <<>>, next |-> 0,
   at |-> "enter"]

\* the innermost call
Top == frames[Len(frames)]

\* the innermost call goes on as frame
Continue(frame) == [frames EXCEPT ![Len(frames)] = frame]

\* the innermost call returns: its caller is at line 152
Return ==
  IF Len(frames) = 1
  THEN <<>>
  ELSE [SubSeq(frames, 1, Len(frames) - 1) EXCEPT ![Len(frames) - 1].at = "back"]

outsideRecursive ==
  <<rlVars, histVars, documents, retries, exported, successCount, errorCount, error, hlHist,
    progress, retry, success, lastError, progressFile, finalReport, cpHist, folders, subfolders,
    subfolderIndex, uniqueDocuments, views, runVars, exVars, exHist, coVars>>

InitRecursive ==
  /\ frames = <<>>
  /\ location = <<>>
  /\ allDocuments = <<>>
  /\ i = 0
  /\ pc = "main"
  \* the rest is not used
  /\ strategies = <<>>
  /\ strategyIndex = 0
  /\ invoked = <<>>
  /\ NoExport
  /\ NoDiscovery
  /\ Constructed(RATE_LIMIT_CONFIG)
  /\ clock = Epoch
  /\ HistoryInit
  /\ documents = <<>>
  /\ retries = 0
  /\ exported = FALSE
  /\ successCount = 0
  /\ errorCount = 0
  /\ error = "none"
  /\ attempts = <<>>
  /\ signals = <<>>
  /\ signalCount = 0
  /\ slotsSince = 0
  /\ sessionPending = FALSE
  /\ retriesAtThrow = 0
  /\ progress = "none"
  /\ retry = 0
  /\ success = FALSE
  /\ lastError = "null"
  /\ progressFile = <<>>
  /\ finalReport = <<>>
  /\ outcome = <<>>
  /\ thrown = <<>>
  /\ faults = 0
  /\ restarts = 0
  /\ startFile = <<>>

\* lines 287-296: the next main folder, or the end of the loop
MainFolder ==
  /\ pc = "main"
  /\ frames = <<>>
  /\ IF i < Len(mainFolders)
       THEN /\ frames' = <<Call(mainFolders[i + 1], <<>>)>>
            /\ i' = i + 1
            /\ pc' = pc
            \* line 292: the click on 'All Documents', or its error, which is dropped
            /\ location' \in {<<>>, location}
       ELSE /\ pc' = "explored"
            /\ UNCHANGED <<frames, i, location>>
  /\ UNCHANGED <<allDocuments, outsideRecursive>>

\* lines 111-142: clickFolder finds nothing to click and the call returns, or the
\* folder opens and page.$$eval throws (lines 166-168), or the folder opens, its
\* links are pushed and findSubfolders is called
EnterFolder ==
  /\ frames # <<>>
  /\ Top.at = "enter"
  /\ \/ /\ frames' = Return
        /\ allDocuments' = allDocuments
        /\ location' = location
     \/ /\ frames' = Return
        /\ allDocuments' = allDocuments
        /\ location' = Append(location, Top.folderName)
     \/ /\ allDocuments' = allDocuments \o FolderDocs(Top)
        /\ location' = Append(location, Top.folderName)
        /\ \E found \in FoundSubfolders :
             /\ Len(frames) >= MaxDepth => found = <<>>
             /\ frames' = Continue([Top EXCEPT !.subfolders = found, !.at = "loop"])
  /\ UNCHANGED <<i, pc, outsideRecursive>>

\* lines 148-149: the for-of loop calls exploreFolderRecursive(subfolder, fullPath)
ExploreSubfolder ==
  /\ frames # <<>>
  /\ Top.at = "loop"
  /\ Top.next < Len(Top.subfolders)
  /\ frames' = Append(Continue([Top EXCEPT !.next = @ + 1, !.at = "awaiting"]),
                      Call(Top.subfolders[Top.next + 1], FullPath(Top)))
  /\ UNCHANGED <<allDocuments, i, pc, location, outsideRecursive>>

\* line 152, navigateBackToFolder (lines 230-257): the click on 'All Documents' and
\* the clickFolder calls for the path; or the click throws and the catch branch
\* goes to the workspace; or the catch branch throws and lines 166-168 end the call
NavigateBack ==
  /\ frames # <<>>
  /\ Top.at = "back"
  /\ \/ /\ frames' = Continue([Top EXCEPT !.at = "loop"])
        /\ location' \in ClickedPaths(FullPath(Top))
     \/ /\ frames' = Continue([Top EXCEPT !.at = "loop"])
        /\ location' = <<>>
     \/ /\ frames' = Return
        /\ location' \in {location, <<>>}
  /\ UNCHANGED <<allDocuments, i, pc, outsideRecursive>>

\* lines 156-165: the loop is over and the call returns
FolderExplored ==
  /\ frames # <<>>
  /\ Top.at = "loop"
  /\ Top.next = Len(Top.subfolders)
  /\ frames' = Return
  /\ UNCHANGED <<allDocuments, i, pc, location, outsideRecursive>>

NextRecursive ==
  \/ MainFolder
  \/ EnterFolder
  \/ ExploreSubfolder
  \/ NavigateBack
  \/ FolderExplored

SpecRecursive == InitRecursive /\ [][NextRecursive]_vars

\* C28 (bounded discovery): the exploration stops descending at a fixed depth:
\* it does not go as deep as the pages show subfolders.
BoundedDepth == Len(frames) < MaxDepth

\* C32 (return to parent between siblings): when the visit of a folder starts,
\* the page shows the parent of the folder ('All Documents' for a main folder),
\* or 'All Documents' when the way back has failed, whatever became of the visit
\* of the folder before.
BackInParent ==
  (frames # <<>> /\ Top.at = "enter") => location \in {Top.parentPath, <<>>}


====
